---- MODULE Spec2Model ----
(***************************************************************************)
(* A model of the Hume emotional-data processor of the PUNCHLINE API       *)
(* (src/hume_processor.py).  The static methods of HumeProcessor are pure  *)
(* functions of a parsed Hume record; they are modelled as operators that  *)
(* follow the code statement by statement, and a caller applies them to    *)
(* records drawn from a bounded pool.                                      *)
(*                                                                         *)
(* Representation.                                                         *)
(*  - A Python dict is a function whose DOMAIN is the set of keys present; *)
(*    d.get(k, default) is Get(d, k, default).                             *)
(*  - A score or a threshold is an integer number of thousandths (304 is   *)
(*    0.304); round(x, 2) is Round2, whose value is again in thousandths.  *)
(*  - A text is a sequence of one-character strings, so that slicing and   *)
(*    concatenation are those of Sequences.                                *)
(*  - An emotion name is a string; "a" \o "b" is string concatenation.     *)
(*  - Every dict built by a loop body carries one history field, src,      *)
(*    naming the channel and the index of the segment it was built from.   *)
(*    It stands for the identity of the Python object; no modelled code    *)
(*    reads it.                                                            *)
(***************************************************************************)
EXTENDS Integers, Sequences, FiniteSets, TLC

VARIABLES hume_data, pc, call, result, running, db

vars == <<hume_data, pc, call, result, running, db>>

(***************************************************************************)
(* Bounds of the model.                                                    *)
(***************************************************************************)
\* The largest number of segments a record holds, all channels together.
MaxSegs == 3
\* The largest top_n a caller passes.
MaxTopN == 2
\* The largest number of prosody segments of a long conversation.
MaxLongSegs == 7
\* The largest number of tokens of a raw input string made of any tokens.
MaxTokens == 3
\* The largest number of transcription records combined in one call.
MaxRecords == 3
\* The number of requests the endpoint receives.
MaxRequests == 2
\* The number of points of the time grid vocal bursts lie on.
MaxGrid == 8
\* The largest number of prosody segments beside the vocal bursts of the grid.
MaxCandProsody == 2

(***************************************************************************)
(* Python primitives.                                                      *)
(***************************************************************************)
EmptyDict == << >>

Get(d, k, default) == IF k \in DOMAIN d THEN d[k] ELSE default

\* d.get(k) without a default: None is << >>, a present value v is <<v>>.
GetOrNone(d, k) == IF k \in DOMAIN d THEN <<d[k]>> ELSE << >>

\* seq[:n] for n >= 0
Take(seq, n) == SubSeq(seq, 1, IF n < Len(seq) THEN n ELSE Len(seq))

\* The thousandths k/1000 ending in 5 that round(k/1000, 2) rounds upwards: the
\* double nearest to k/1000 lies above the tie for these and below it for the rest.
HalfRoundsUp ==
    {5, 25, 35, 55, 65, 85, 95, 115, 135, 165, 195, 225, 255, 265, 275, 315,
     325, 335, 375, 385, 395, 405, 445, 455, 465, 505, 515, 525, 535, 545,
     555, 635, 645, 655, 665, 675, 685, 755, 765, 775, 785, 795, 805, 875,
     885, 895, 905, 915, 925, 935}

\* round(k/1000, 2), in thousandths, for 0 <= k <= 1000
Round2(k) ==
    LET r == k % 10
        base == k - r
    IN  IF r < 5 THEN base
        ELSE IF r > 5 THEN base + 10
        ELSE IF k \in HalfRoundsUp THEN base + 10 ELSE base

(***************************************************************************)
(* The records the callers pass.                                           *)
(***************************************************************************)
ShortText == <<"H", "a", "!">>

\* 31 characters: one more than the snippet keeps
LongText ==
    <<"I", " ", "r", "e", "a", "l", "l", "y", " ", "d", "i", "d", " ", "n",
      "o", "t", " ", "e", "x", "p", "e", "c", "t", " ", "t", "h", "a", "t",
      " ", "t", "o">>

\* Segments of the speech_prosody channel: every key is optional.
ProsodySegmentPool ==
    { EmptyDict,
      [time |-> [begin |-> 2], text |-> LongText,
       dominant_emotion |-> [name |-> "Joy", score |-> 301]],
      [time |-> EmptyDict, text |-> ShortText,
       dominant_emotion |-> [name |-> "Sadness", score |-> 304]],
      [time |-> [begin |-> 5], dominant_emotion |-> [name |-> "Joy", score |-> 500]],
      [text |-> ShortText, dominant_emotion |-> [score |-> 500]],
      [time |-> [begin |-> 7], text |-> << >>, dominant_emotion |-> [name |-> "Unknown"]] }

\* Segments of the vocal_burst channel.
BurstSegmentPool ==
    { EmptyDict,
      [time |-> [begin |-> 4], dominant_emotion |-> [name |-> "Joy", score |-> 301]],
      [dominant_emotion |-> [score |-> 500]] }

\* Segments of the language channel.
LanguageSegmentPool ==
    { EmptyDict,
      [dominant_emotion |-> [name |-> "Joy", score |-> 304]],
      [dominant_emotion |-> [name |-> "Sadness", score |-> 500]] }

SeqsUpTo(S, n) == UNION { [1..k -> S] : k \in 0..n }

\* A channel is absent, or a dict holding a list of segments.
ChannelChoices(pool) ==
    { [present |-> FALSE, segs |-> << >>] }
      \cup { [present |-> TRUE, segs |-> s] : s \in SeqsUpTo(pool, MaxSegs) }

Channel(key, c) == IF c.present THEN key :> [segments |-> c.segs] ELSE EmptyDict

Records ==
    { Channel("speech_prosody", t[1]) @@ Channel("vocal_burst", t[2])
        @@ Channel("language", t[3]) :
        t \in { u \in ChannelChoices(ProsodySegmentPool)
                        \X ChannelChoices(BurstSegmentPool)
                        \X ChannelChoices(LanguageSegmentPool) :
                  Len(u[1].segs) + Len(u[2].segs) + Len(u[3].segs) <= MaxSegs } }

\* Segments of a long conversation: three emotions, one of them between the
\* default change threshold and the one full_summary uses.
LongProsodyPool ==
    { [time |-> [begin |-> 1], dominant_emotion |-> [name |-> "Joy", score |-> 500]],
      [time |-> [begin |-> 2], dominant_emotion |-> [name |-> "Sadness", score |-> 240]],
      [time |-> [begin |-> 3], dominant_emotion |-> [name |-> "Anger", score |-> 400]] }

\* Records of a long conversation: a speech_prosody channel only.
LongRecords ==
    { [speech_prosody |-> [segments |-> s]] : s \in SeqsUpTo(LongProsodyPool, MaxLongSegs) }

\* The vocal burst at point k of the time grid: 3 seconds apart, every second one
\* strong enough to be a peak.
GridBurst(k) ==
    [ time |-> [begin |-> 3 * k],
      dominant_emotion |->
          IF k % 2 = 1 THEN [name |-> "Joy", score |-> 500] ELSE [score |-> 100] ]

\* The elements of a set of numbers in ascending order.
RECURSIVE Ascending(_)
Ascending(S) ==
    IF S = {} THEN << >>
    ELSE LET m == CHOOSE x \in S : \A y \in S : x <= y
         IN  <<m>> \o Ascending(S \ {m})

\* Prosody segments beside the bursts, in three categories of the reason table.
CandProsodyPool ==
    { [time |-> [begin |-> 3], dominant_emotion |-> [name |-> "Sadness", score |-> 304]],
      [time |-> [begin |-> 13], dominant_emotion |-> [name |-> "Realization", score |-> 500]],
      [time |-> [begin |-> 22], dominant_emotion |-> [name |-> "Anger", score |-> 400]] }

\* Records with vocal bursts on the time grid, in time order.
CandRecords ==
    { [ speech_prosody |-> [segments |-> p],
        vocal_burst |-> [segments |-> [i \in 1..Len(Ascending(K)) |->
                                         GridBurst(Ascending(K)[i])]] ] :
        p \in SeqsUpTo(CandProsodyPool, MaxCandProsody),
        K \in SUBSET (0..(MaxGrid - 1)) }

\* A conversation of seven prosody segments and six vocal bursts, eleven of them
\* at or above 0.25: every category of the reason table, a name in lower case,
\* and a score that rounds to 0.25 from below.
ManyProsody ==
    << [time |-> [begin |-> 10], dominant_emotion |-> [name |-> "Joy", score |-> 500]],
       [time |-> [begin |-> 11], dominant_emotion |-> [name |-> "Sadness", score |-> 600]],
       [time |-> [begin |-> 20], dominant_emotion |-> [name |-> "joy", score |-> 400]],
       [time |-> [begin |-> 30],
        dominant_emotion |-> [name |-> "Surprise (positive)", score |-> 450]],
       [time |-> [begin |-> 40],
        dominant_emotion |-> [name |-> "Contemplation", score |-> 350]],
       [time |-> [begin |-> 50], dominant_emotion |-> [name |-> "Anger", score |-> 300]],
       [time |-> [begin |-> 60],
        dominant_emotion |-> [name |-> "Empathic Pain", score |-> 310]] >>

ManyBursts ==
    << [time |-> [begin |-> 10], dominant_emotion |-> [name |-> "Joy", score |-> 700]],
       [time |-> [begin |-> 25],
        dominant_emotion |-> [name |-> "Amusement", score |-> 260]],
       [time |-> [begin |-> 35], dominant_emotion |-> [score |-> 100]],
       [time |-> [begin |-> 45], dominant_emotion |-> [name |-> "Joy", score |-> 280]],
       [time |-> [begin |-> 0], dominant_emotion |-> [name |-> "Sadness", score |-> 290]],
       [time |-> [begin |-> 12],
        dominant_emotion |-> [name |-> "Amusement", score |-> 249]] >>

\* The segments of a list at the indices of K, in list order.
Selected(segments, K) ==
    [i \in 1..Len(Ascending(K)) |-> segments[Ascending(K)[i]]]

\* Records holding any of the segments of the conversation.
ManyRecords ==
    { [ speech_prosody |-> [segments |-> Selected(ManyProsody, P)],
        vocal_burst |-> [segments |-> Selected(ManyBursts, B)] ] :
        P \in SUBSET (1..Len(ManyProsody)), B \in SUBSET (1..Len(ManyBursts)) }

\* The time windows a caller passes, in seconds.
TimeWindows == {-1, 0, 1, 2}

\* Three records that differ in every channel, for calls that run side by side.
ConcRecords ==
    { [ speech_prosody |-> [segments |->
            << [time |-> [begin |-> 5],
                dominant_emotion |-> [name |-> "Joy", score |-> 500]],
               [time |-> EmptyDict, text |-> ShortText,
                dominant_emotion |-> [name |-> "Sadness", score |-> 304]] >>],
        vocal_burst |-> [segments |->
            << [time |-> [begin |-> 4],
                dominant_emotion |-> [name |-> "Joy", score |-> 301]] >>],
        language |-> [segments |->
            << [dominant_emotion |-> [name |-> "Joy", score |-> 304]] >>] ],
      [ speech_prosody |-> [segments |->
            << [time |-> [begin |-> 2], text |-> LongText,
                dominant_emotion |-> [name |-> "Sadness", score |-> 400]],
               [time |-> [begin |-> 9],
                dominant_emotion |-> [name |-> "Anger", score |-> 700]] >>],
        language |-> [segments |->
            << [dominant_emotion |-> [name |-> "Sadness", score |-> 500]] >>] ],
      [ vocal_burst |-> [segments |-> << GridBurst(1), GridBurst(4) >>] ] }

\* A raw input string is the sequence of its JSON tokens; blanks between them
\* carry no meaning.  The one string literal is the key "language".
JsonTokens == {"{", "}", "[", "]", ":", ",", "null", "\"language\""}

\* Documents: a record with an empty language channel, one whose language
\* channel is a list, one that repeats a key, and a list of values.
Documents ==
    { <<"{", "\"language\"", ":", "{", "}", "}">>,
      <<"{", "\"language\"", ":", "[", "null", "]", "}">>,
      <<"{", "\"language\"", ":", "null", ",", "\"language\"", ":", "{", "}", "}">>,
      <<"[", "{", "}", ",", "null", "]">> }

\* A document as it is, with one token replaced, or with one token lost.
Damaged(doc) ==
    {doc}
      \cup { [doc EXCEPT ![i] = token] : i \in 1..Len(doc), token \in JsonTokens }
      \cup { SubSeq(doc, 1, i - 1) \o SubSeq(doc, i + 1, Len(doc)) : i \in 1..Len(doc) }

\* Every short token sequence, and the documents and their damaged copies.
RawInputs == SeqsUpTo(JsonTokens, MaxTokens) \cup UNION { Damaged(doc) : doc \in Documents }

\* Transcription records.  recorded_at is an ISO string: its date (a day number),
\* its time of day in seconds, and its zone suffix, "" or "+00:00".  local_time
\* is optional.
TranscriptionPool ==
    { [recorded_at |-> [day |-> 0, second |-> 0, zone |-> ""], transcription |-> "a"],
      [recorded_at |-> [day |-> 0, second |-> 3600, zone |-> "+00:00"],
       transcription |-> "b", local_time |-> "10:00"],
      [recorded_at |-> [day |-> 0, second |-> 3601, zone |-> ""], transcription |-> "c"],
      [recorded_at |-> [day |-> 0, second |-> 45296, zone |-> ""], transcription |-> "d"],
      [recorded_at |-> [day |-> 1, second |-> 600, zone |-> ""], transcription |-> "e"],
      [recorded_at |-> [day |-> 1, second |-> 3601, zone |-> "+00:00"],
       transcription |-> "f"],
      [recorded_at |-> [day |-> 2, second |-> 3601, zone |-> ""], transcription |-> "g"] }

TranscriptionLists == SeqsUpTo(TranscriptionPool, MaxRecords)

\* session_gap_minutes: the default, none at all, and more than a day.
SessionGaps == {0, 60, 1500}

\* What the LLM answers, as tokens: JSON tokens, the code fence and a word of
\* prose.  A JSON object, one reporting an error of its own, a fenced object, an
\* object within prose, prose alone, a fence around prose, braces that do not
\* hold JSON, a list, a list naming the key, the key as a string, and null.
RawResponses ==
    { <<"{", "\"language\"", ":", "null", "}">>,
      <<"{", "\"processing_error\"", ":", "null", "}">>,
      <<"text", "fence", "{", "}", "fence", "text">>,
      <<"text", "{", "\"language\"", ":", "{", "}", "}", "text">>,
      <<"text">>,
      <<"fence", "text", "fence", "{", "}">>,
      <<"text", "{", "text", "}">>,
      <<"[", "{", "}", "]">>,
      <<"[", "\"processing_error\"", "]">>,
      <<"\"processing_error\"">>,
      <<"null">> }

RequestIds == 1..MaxRequests

\* The three tables, each the set of request ids with a row in it.
EmptyTables ==
    [ punchline_requests |-> {},
      punchline_structured_conversations |-> {},
      punchline_results |-> {} ]

\* The thresholds a caller passes, in thousandths.
Thresholds == {0, 304, 350, 1001}

\* The strategy names a caller passes; the last two are not strategies of the code.
Strategies == {"peaks", "transitions", "full_summary", "sentiment", "Peaks"}

\* The keyword arguments a caller passes to create_emotional_summary.
KwargsPool ==
    { EmptyDict,
      [threshold |-> 304, top_n |-> 1],
      [change_threshold |-> 350] }

(***************************************************************************)
(* HumeProcessor.extract_emotional_peaks                                   *)
(***************************************************************************)
SnippetLen == 30

Ellipsis == <<".", ".", ".">>

NonVerbalSnippet ==
    <<"[", "N", "o", "n", "-", "v", "e", "r", "b", "a", "l", " ", "e", "x",
      "p", "r", "e", "s", "s", "i", "o", "n", "]">>

\* an ellipsis only where the text was cut
ProsodyPeakCutOnly(segment, dominant, i) ==
    [ time |-> Get(Get(segment, "time", EmptyDict), "begin", 0),
      emotion |-> Get(dominant, "name", "Unknown"),
      score |-> Round2(Get(dominant, "score", 0)),
      text_snippet |->
          IF Len(Get(segment, "text", << >>)) > SnippetLen
          THEN Take(Get(segment, "text", << >>), SnippetLen) \o Ellipsis
          ELSE Get(segment, "text", << >>),
      src |-> <<"speech_prosody", i>> ]

\* the dict appended for a speech_prosody segment
ProsodyPeak(segment, dominant, i) ==
    [ time |-> Get(Get(segment, "time", EmptyDict), "begin", 0),
      emotion |-> Get(dominant, "name", "Unknown"),
      score |-> Round2(Get(dominant, "score", 0)),
      text_snippet |-> Take(Get(segment, "text", << >>), SnippetLen) \o Ellipsis,
      src |-> <<"speech_prosody", i>> ]

\* the dict appended for a vocal_burst segment
\* The burst peak whose missing name is left empty
BurstPeakNameless(burst, dominant, i) ==
    [ time |-> Get(Get(burst, "time", EmptyDict), "begin", 0),
      emotion |-> "VocalBurst:" \o Get(dominant, "name", ""),
      score |-> Round2(Get(dominant, "score", 0)),
      text_snippet |-> NonVerbalSnippet,
      src |-> <<"vocal_burst", i>> ]

BurstPeak(burst, dominant, i) ==
    [ time |-> Get(Get(burst, "time", EmptyDict), "begin", 0),
      emotion |-> "VocalBurst:" \o Get(dominant, "name", "Unknown"),
      score |-> Round2(Get(dominant, "score", 0)),
      text_snippet |-> NonVerbalSnippet,
      src |-> <<"vocal_burst", i>> ]

PassesBelow(score, threshold) == score <= threshold

\* the test "dominant.get('score', 0) >= threshold"
Passes(score, threshold) == score >= threshold

RECURSIVE ProsodyLoop(_, _, _, _)
ProsodyLoop(peaks, segments, i, threshold) ==
    IF i > Len(segments) THEN peaks
    ELSE LET segment == segments[i]
             dominant == Get(segment, "dominant_emotion", EmptyDict)
         IN  ProsodyLoop(
                 IF Passes(Get(dominant, "score", 0), threshold)
                 THEN Append(peaks, ProsodyPeak(segment, dominant, i))
                 ELSE peaks,
                 segments, i + 1, threshold)

RECURSIVE BurstLoop(_, _, _, _)
BurstLoop(peaks, bursts, i, threshold) ==
    IF i > Len(bursts) THEN peaks
    ELSE LET burst == bursts[i]
             dominant == Get(burst, "dominant_emotion", EmptyDict)
         IN  BurstLoop(
                 IF Passes(Get(dominant, "score", 0), threshold)
                 THEN Append(peaks, BurstPeak(burst, dominant, i))
                 ELSE peaks,
                 bursts, i + 1, threshold)

\* Where x goes in a list already sorted by descending score: after every
\* element whose score is >= its own (list.sort is stable, also with reverse=True).
RECURSIVE InsertByScoreUnstable(_, _)
InsertByScoreUnstable(sorted, x) ==
    IF sorted = << >> THEN <<x>>
    ELSE IF Head(sorted).score > x.score
         THEN <<Head(sorted)>> \o InsertByScoreUnstable(Tail(sorted), x)
         ELSE <<x>> \o sorted

RECURSIVE InsertByScore(_, _)
InsertByScore(sorted, x) ==
    IF sorted = << >> THEN <<x>>
    ELSE IF Head(sorted).score >= x.score
         THEN <<Head(sorted)>> \o InsertByScore(Tail(sorted), x)
         ELSE <<x>> \o sorted

RECURSIVE SortByScoreFrom(_, _, _)
SortByScoreFrom(sorted, peaks, i) ==
    IF i > Len(peaks) THEN sorted
    ELSE SortByScoreFrom(InsertByScore(sorted, peaks[i]), peaks, i + 1)

SortByScoreNone(peaks) == peaks

\* peaks.sort(key=lambda x: x['score'], reverse=True)
SortByScore(peaks) == SortByScoreFrom(<< >>, peaks, 1)

\* the list of peaks before the sort: prosody peaks, then vocal-burst peaks
EmittedPeaks(data, threshold) ==
    LET prosody == Get(data, "speech_prosody", EmptyDict)
        segments == Get(prosody, "segments", << >>)
        vocal_bursts == Get(data, "vocal_burst", EmptyDict)
    IN  BurstLoop(ProsodyLoop(<< >>, segments, 1, threshold),
                  Get(vocal_bursts, "segments", << >>), 1, threshold)

extract_emotional_peaks(data, top_n, threshold) ==
    Take(SortByScore(EmittedPeaks(data, threshold)), top_n)

(***************************************************************************)
(* HumeProcessor.detect_emotional_transitions                              *)
(***************************************************************************)
\* the time of the earlier segment of the pair
TransitionPrevTime(segments, i, prev_emotion, curr_emotion) ==
    [ time |-> Get(Get(segments[i - 1], "time", EmptyDict), "begin", 0),
      from_emotion |-> Get(prev_emotion, "name", "Unknown"),
      to_emotion |-> Get(curr_emotion, "name", "Unknown"),
      intensity |-> Round2(Get(curr_emotion, "score", 0)),
      src |-> <<"speech_prosody", i>> ]

\* the dict appended for the pair (segments[i-1], segments[i]); i counts from 1,
\* so the loop "for i in range(1, len(segments))" runs i over 2..Len(segments)
Transition(segments, i, prev_emotion, curr_emotion) ==
    [ time |-> Get(Get(segments[i], "time", EmptyDict), "begin", 0),
      from_emotion |-> Get(prev_emotion, "name", "Unknown"),
      to_emotion |-> Get(curr_emotion, "name", "Unknown"),
      intensity |-> Round2(Get(curr_emotion, "score", 0)),
      src |-> <<"speech_prosody", i>> ]

NamesDifferAlways(prev_emotion, curr_emotion) == TRUE

\* the test "prev_emotion.get('name') != curr_emotion.get('name')"
NamesDiffer(prev_emotion, curr_emotion) ==
    GetOrNone(prev_emotion, "name") # GetOrNone(curr_emotion, "name")

RECURSIVE TransitionLoop(_, _, _, _)
TransitionLoop(transitions, segments, i, change_threshold) ==
    IF i > Len(segments) THEN transitions
    ELSE LET prev_emotion == Get(segments[i - 1], "dominant_emotion", EmptyDict)
             curr_emotion == Get(segments[i], "dominant_emotion", EmptyDict)
         IN  TransitionLoop(
                 IF /\ NamesDiffer(prev_emotion, curr_emotion)
                    /\ Passes(Get(curr_emotion, "score", 0), change_threshold)
                 THEN Append(transitions,
                             Transition(segments, i, prev_emotion, curr_emotion))
                 ELSE transitions,
                 segments, i + 1, change_threshold)

detect_emotional_transitions(data, change_threshold) ==
    LET prosody == Get(data, "speech_prosody", EmptyDict)
        segments == Get(prosody, "segments", << >>)
    IN  TransitionLoop(<< >>, segments, 2, change_threshold)

(***************************************************************************)
(* HumeProcessor.create_emotional_summary                                  *)
(***************************************************************************)
DefaultThreshold == 300
DefaultTopN == 5
DefaultChangeThreshold == 200
FullSummaryTopN == 3
FullSummaryThreshold == 350
FullSummaryChangeThreshold == 250
MaxTransitionsKept == 5
MaxKeyMoments == 2
MaxArcTransitions == 3

\* f"{x:.1f}" and f"{x:.0f}" of a whole number
Format1f(x) == ToString(x) \o ".0"
Format0f(x) == ToString(x)

\* the overall mood, from the first language segment
MoodOfLast(data) ==
    LET language == Get(data, "language", EmptyDict)
        segments == Get(language, "segments", << >>)
    IN  IF segments # << >>
        THEN LET dominant_emotion ==
                     Get(segments[Len(segments)], "dominant_emotion", EmptyDict)
             IN  [ overall_mood |-> Get(dominant_emotion, "name", "Unknown"),
                   mood_confidence |-> Round2(Get(dominant_emotion, "score", 0)) ]
        ELSE EmptyDict

Mood(data) ==
    LET language == Get(data, "language", EmptyDict)
        segments == Get(language, "segments", << >>)
    IN  IF segments # << >>
        THEN LET dominant_emotion == Get(segments[1], "dominant_emotion", EmptyDict)
             IN  [ overall_mood |-> Get(dominant_emotion, "name", "Unknown"),
                   mood_confidence |-> Round2(Get(dominant_emotion, "score", 0)) ]
        ELSE EmptyDict

KeyMoment(peak) ==
    [ time |-> Format1f(peak.time) \o "s",
      event |-> peak.emotion \o " (" \o Format0f(peak.score \div 10) \o "%)" ]

\* "if x not in arc_parts: arc_parts.append(x)"
AppendIfNew(arc_parts, x) ==
    IF \E k \in 1..Len(arc_parts) : arc_parts[k] = x THEN arc_parts
    ELSE Append(arc_parts, x)

RECURSIVE ArcLoop(_, _, _)
ArcLoop(arc_parts, ts, k) ==
    IF k > Len(ts) THEN arc_parts
    ELSE ArcLoop(AppendIfNew(arc_parts, ts[k].to_emotion), ts, k + 1)

\* sep.join(parts)
RECURSIVE Join(_, _)
Join(sep, parts) ==
    IF parts = << >> THEN ""
    ELSE IF Len(parts) = 1 THEN parts[1]
    ELSE parts[1] \o sep \o Join(sep, Tail(parts))

ArcSeparator == " → "

\* the arc over every transition
EmotionalArcUncut(transitions) ==
    IF Len(transitions) > 0
    THEN [ emotional_arc |->
             Join(ArcSeparator,
                  ArcLoop(AppendIfNew(<< >>, transitions[1].from_emotion),
                          transitions, 1)) ]
    ELSE EmptyDict

EmotionalArc(transitions) ==
    IF Len(transitions) > 0
    THEN [ emotional_arc |->
             Join(ArcSeparator,
                  ArcLoop(AppendIfNew(<< >>, transitions[1].from_emotion),
                          Take(transitions, MaxArcTransitions), 1)) ]
    ELSE EmptyDict

\* the branch of strategy 'peaks'
PeaksPart(data, kwargs) ==
    [ emotional_peaks |->
        extract_emotional_peaks(data, Get(kwargs, "top_n", DefaultTopN),
                                Get(kwargs, "threshold", DefaultThreshold)) ]

\* every transition kept
TransitionsPartUncut(data, kwargs) ==
    [ emotional_transitions |->
        detect_emotional_transitions(
            data, Get(kwargs, "change_threshold", DefaultChangeThreshold)) ]

\* the branch of strategy 'transitions'
TransitionsPart(data, kwargs) ==
    [ emotional_transitions |->
        Take(detect_emotional_transitions(
                 data, Get(kwargs, "change_threshold", DefaultChangeThreshold)),
             MaxTransitionsKept) ]

\* a key moment for each of the three peaks
FullSummaryPartAllPeaks(data) ==
    LET peaks == extract_emotional_peaks(data, FullSummaryTopN, FullSummaryThreshold)
        transitions == detect_emotional_transitions(data, FullSummaryChangeThreshold)
    IN  [ key_moments |-> [k \in 1..Len(peaks) |-> KeyMoment(peaks[k])] ]
          @@ EmotionalArc(transitions)

\* the branch of strategy 'full_summary'
FullSummaryPart(data) ==
    LET peaks == extract_emotional_peaks(data, FullSummaryTopN, FullSummaryThreshold)
        transitions == detect_emotional_transitions(data, FullSummaryChangeThreshold)
        top == Take(peaks, MaxKeyMoments)
    IN  [ key_moments |-> [k \in 1..Len(top) |-> KeyMoment(top[k])] ]
          @@ EmotionalArc(transitions)

\* a chain whose last branch is a plain else
StrategyPartElsePeaks(data, strategy, kwargs) ==
    IF strategy = "transitions" THEN TransitionsPart(data, kwargs)
    ELSE IF strategy = "full_summary" THEN FullSummaryPart(data)
    ELSE PeaksPart(data, kwargs)

\* the keys the if/elif chain over strategy adds
StrategyPart(data, strategy, kwargs) ==
    IF strategy = "peaks" THEN PeaksPart(data, kwargs)
    ELSE IF strategy = "transitions" THEN TransitionsPart(data, kwargs)
    ELSE IF strategy = "full_summary" THEN FullSummaryPart(data)
    ELSE EmptyDict

create_emotional_summary(data, strategy, kwargs) ==
    Mood(data) @@ StrategyPart(data, strategy, kwargs)

(***************************************************************************)
(* HumeProcessor.format_for_prompt                                         *)
(*                                                                         *)
(* A line f"{label}: {content}" is the record of its label and content;    *)
(* the returned string is the join of the lines by "\n", and the value     *)
(* returned carries, as history, the lines it was joined from.             *)
(***************************************************************************)
MaxFormatPeaks == 3
MaxFormatMoments == 2

Line(label, content) == [label |-> label, content |-> content]

LineText(line) == line.label \o ": " \o line.content

\* f"[{p['time']:.0f}s: {p['emotion']} {p['score']*100:.0f}%]"
PeakStr(p) ==
    "[" \o Format0f(p.time) \o "s: " \o p.emotion \o " "
        \o Format0f(p.score \div 10) \o "%]"

\* f"{m['event']} at {m['time']}"
MomentStr(m) == m.event \o " at " \o m.time

OverallMoodLines(emotional_summary) ==
    IF "overall_mood" \in DOMAIN emotional_summary
    THEN <<Line("Overall mood", emotional_summary["overall_mood"])>>
    ELSE << >>

PeakMomentsLines(emotional_summary) ==
    IF "emotional_peaks" \in DOMAIN emotional_summary
    THEN LET peaks == emotional_summary["emotional_peaks"]
             shown == Take(peaks, MaxFormatPeaks)
         IN  IF peaks # << >>
             THEN <<Line("Peak moments",
                         Join(", ", [k \in 1..Len(shown) |-> PeakStr(shown[k])]))>>
             ELSE << >>
    ELSE << >>

EmotionalJourneyLines(emotional_summary) ==
    IF "emotional_arc" \in DOMAIN emotional_summary
    THEN <<Line("Emotional journey", emotional_summary["emotional_arc"])>>
    ELSE << >>

KeyMomentsLines(emotional_summary) ==
    IF "key_moments" \in DOMAIN emotional_summary
    THEN LET shown == Take(emotional_summary["key_moments"], MaxFormatMoments)
         IN  <<Line("Key moments",
                    Join(", ", [k \in 1..Len(shown) |-> MomentStr(shown[k])]))>>
    ELSE << >>

\* the key moments ahead of the journey
FormatLinesMomentsFirst(emotional_summary) ==
    OverallMoodLines(emotional_summary) \o PeakMomentsLines(emotional_summary)
        \o KeyMomentsLines(emotional_summary) \o EmotionalJourneyLines(emotional_summary)

\* the list "lines" when the function returns
FormatLines(emotional_summary) ==
    OverallMoodLines(emotional_summary) \o PeakMomentsLines(emotional_summary)
        \o EmotionalJourneyLines(emotional_summary) \o KeyMomentsLines(emotional_summary)

format_for_prompt(emotional_summary) ==
    LET lines == FormatLines(emotional_summary)
    IN  [ text |-> Join("\n", [k \in 1..Len(lines) |-> LineText(lines[k])]),
          lines |-> lines ]

\* The summaries a caller formats: those create_emotional_summary returns for the
\* record, and one assembled from two of them so that every channel is present.
SummaryInputs(data) ==
    { create_emotional_summary(data, strategy, EmptyDict) : strategy \in Strategies }
      \cup { create_emotional_summary(data, "peaks", EmptyDict)
               @@ create_emotional_summary(data, "full_summary", EmptyDict) }

(***************************************************************************)
(* HumeProcessor.identify_punchline_candidates                             *)
(*                                                                         *)
(* A candidate tuple (start, end, reason) is a record of these three and   *)
(* of one history field, parts: the peaks and bursts it was built and      *)
(* merged from, in the order of their reasons.                             *)
(***************************************************************************)
CandidatesTopN == 10
CandidatesThreshold == 250
BurstWindow == 1
MaxCandidates == 7

\* max(0, x) without the clamp
Max0Unclamped(x) == x

\* max(0, x)
Max0(x) == IF x > 0 THEN x ELSE 0

\* max(a, b)
Max(a, b) == IF a > b THEN a ELSE b

\* the chain over the emotion with its case folded
ReasonFoldingCase(emotion) ==
    IF emotion \in {"Amusement", "Joy", "Excitement", "joy"} THEN "High humor/joy moment"
    ELSE IF emotion \in {"Sadness", "Empathic Pain"} THEN "Emotional/touching moment"
    ELSE IF emotion \in {"Surprise (positive)", "Surprise (negative)"}
         THEN "Unexpected twist"
    ELSE IF emotion \in {"Contemplation", "Realization"} THEN "Insightful observation"
    ELSE "Strong " \o emotion \o " moment"

\* the if/elif chain over peak['emotion']
Reason(emotion) ==
    IF emotion \in {"Amusement", "Joy", "Excitement"} THEN "High humor/joy moment"
    ELSE IF emotion \in {"Sadness", "Empathic Pain"} THEN "Emotional/touching moment"
    ELSE IF emotion \in {"Surprise (positive)", "Surprise (negative)"}
         THEN "Unexpected twist"
    ELSE IF emotion \in {"Contemplation", "Realization"} THEN "Insightful observation"
    ELSE "Strong " \o emotion \o " moment"

\* the tuple appended for a peak
PeakCandidate(peak, time_window) ==
    [ start |-> Max0(peak.time - time_window),
      end |-> peak.time + time_window,
      reason |-> Reason(peak.emotion),
      parts |-> << <<"peak", peak.src>> >> ]

\* the tuple of a vocal burst placed after the burst instead of around it
BurstCandidateAfter(burst, i) ==
    LET time == Get(Get(burst, "time", EmptyDict), "begin", 0)
    IN  [ start |-> time + BurstWindow,
          end |-> time + BurstWindow + BurstWindow,
          reason |-> "Non-verbal expression",
          parts |-> << <<"burst", <<"vocal_burst", i>> >> >> ]

\* the tuple appended for a vocal burst
BurstCandidate(burst, i) ==
    LET time == Get(Get(burst, "time", EmptyDict), "begin", 0)
    IN  [ start |-> Max0(time - BurstWindow),
          end |-> time + BurstWindow,
          reason |-> "Non-verbal expression",
          parts |-> << <<"burst", <<"vocal_burst", i>> >> >> ]

\* the list with the vocal bursts below the threshold of the peaks left out
CandidatesOfStrongBursts(data, time_window) ==
    LET peaks == extract_emotional_peaks(data, CandidatesTopN, CandidatesThreshold)
        bursts == Get(Get(data, "vocal_burst", EmptyDict), "segments", << >>)
        strong == Ascending({ i \in 1..Len(bursts) :
                      Get(Get(bursts[i], "dominant_emotion", EmptyDict), "score", 0)
                          >= CandidatesThreshold })
    IN  [k \in 1..Len(peaks) |-> PeakCandidate(peaks[k], time_window)]
          \o [j \in 1..Len(strong) |-> BurstCandidate(bursts[strong[j]], strong[j])]

\* the list "candidates" before the sort: one per peak, then one per vocal burst
Candidates(data, time_window) ==
    LET peaks == extract_emotional_peaks(data, CandidatesTopN, CandidatesThreshold)
        bursts == Get(Get(data, "vocal_burst", EmptyDict), "segments", << >>)
    IN  [k \in 1..Len(peaks) |-> PeakCandidate(peaks[k], time_window)]
          \o [i \in 1..Len(bursts) |-> BurstCandidate(bursts[i], i)]

\* Where x goes in a list already sorted by ascending start: after every element
\* whose start is <= its own (list.sort is stable).
RECURSIVE InsertByStart(_, _)
InsertByStart(sorted, x) ==
    IF sorted = << >> THEN <<x>>
    ELSE IF Head(sorted).start <= x.start
         THEN <<Head(sorted)>> \o InsertByStart(Tail(sorted), x)
         ELSE <<x>> \o sorted

RECURSIVE SortByStartFrom(_, _, _)
SortByStartFrom(sorted, candidates, i) ==
    IF i > Len(candidates) THEN sorted
    ELSE SortByStartFrom(InsertByStart(sorted, candidates[i]), candidates, i + 1)

\* candidates.sort(key=lambda x: x[0])
SortByStart(candidates) == SortByStartFrom(<< >>, candidates, 1)

\* the last interval ending where the incoming one ends
ExtendToIncomingEnd(merged, c) ==
    LET last == merged[Len(merged)]
    IN  [merged EXCEPT ![Len(merged)] =
            [ start |-> last.start,
              end |-> c.end,
              reason |-> last.reason \o " + " \o c.reason,
              parts |-> last.parts \o c.parts ]]

\* merged[-1] = (merged[-1][0], max(end, merged[-1][1]), merged[-1][2] + f' + {reason}')
Extend(merged, c) ==
    LET last == merged[Len(merged)]
    IN  [merged EXCEPT ![Len(merged)] =
            [ start |-> last.start,
              end |-> Max(c.end, last.end),
              reason |-> last.reason \o " + " \o c.reason,
              parts |-> last.parts \o c.parts ]]

\* a sweep that compares with the interval before, not with the merged one
RECURSIVE MergeLoopAgainstPrevious(_, _, _)
MergeLoopAgainstPrevious(merged, candidates, i) ==
    IF i > Len(candidates) THEN merged
    ELSE MergeLoopAgainstPrevious(
             IF merged # << >> /\ candidates[i].start <= candidates[i - 1].end
             THEN Extend(merged, candidates[i])
             ELSE Append(merged, candidates[i]),
             candidates, i + 1)

\* a sweep that leaves an interval alone when it starts where the last one ends
RECURSIVE MergeLoopStrict(_, _, _)
MergeLoopStrict(merged, candidates, i) ==
    IF i > Len(candidates) THEN merged
    ELSE MergeLoopStrict(
             IF merged # << >> /\ candidates[i].start < merged[Len(merged)].end
             THEN Extend(merged, candidates[i])
             ELSE Append(merged, candidates[i]),
             candidates, i + 1)

\* the loop "for start, end, reason in candidates"
RECURSIVE MergeLoop(_, _, _)
MergeLoop(merged, candidates, i) ==
    IF i > Len(candidates) THEN merged
    ELSE MergeLoop(
             IF merged # << >> /\ candidates[i].start <= merged[Len(merged)].end
             THEN Extend(merged, candidates[i])
             ELSE Append(merged, candidates[i]),
             candidates, i + 1)

\* the merge sweep over a list
MergeSweep(candidates) == MergeLoop(<< >>, candidates, 1)

\* the list "merged" when the loop ends
MergedCandidates(data, time_window) ==
    MergeSweep(SortByStart(Candidates(data, time_window)))

\* the whole merged list
identify_punchline_candidates_uncut(data, time_window) ==
    MergedCandidates(data, time_window)

identify_punchline_candidates(data, time_window) ==
    Take(MergedCandidates(data, time_window), MaxCandidates)

(***************************************************************************)
(* process_hume_data                                                       *)
(*                                                                         *)
(* json.loads is a recursive descent over the tokens.  A parsed value      *)
(* carries its Python type: NoneType, str, list or dict.                   *)
(***************************************************************************)
JsonNone == [type |-> "NoneType"]
JsonStr(text) == [type |-> "str", text |-> text]
JsonList(items) == [type |-> "list", items |-> items]
JsonDict(members) == [type |-> "dict", members |-> members]

ParseFailure == [ok |-> FALSE]
Parsed(value, next) == [ok |-> TRUE, value |-> value, next |-> next]

TokenAt(tokens, i) == IF i <= Len(tokens) THEN tokens[i] ELSE "EOF"

IsStringToken(token) == token \in {"\"language\"", "\"processing_error\""}

\* the text between the quotes
StringOf(token) ==
    IF token = "\"processing_error\"" THEN "processing_error" ELSE "language"

RECURSIVE ParseValue(_, _)
RECURSIVE ParseItems(_, _, _)
RECURSIVE ParseMembers(_, _, _)

\* the items of a list after "[" or ",": value, then "," or "]"
ParseItems(tokens, i, items) ==
    LET v == ParseValue(tokens, i)
    IN  IF ~v.ok THEN ParseFailure
        ELSE IF TokenAt(tokens, v.next) = "]"
             THEN Parsed(JsonList(Append(items, v.value)), v.next + 1)
        ELSE IF TokenAt(tokens, v.next) = ","
             THEN ParseItems(tokens, v.next + 1, Append(items, v.value))
        ELSE ParseFailure

\* the members of a dict after "{" or ",": string, ":", value, then "," or "}";
\* a repeated key keeps its last value
ParseMembers(tokens, i, members) ==
    IF ~IsStringToken(TokenAt(tokens, i)) \/ TokenAt(tokens, i + 1) # ":"
    THEN ParseFailure
    ELSE LET v == ParseValue(tokens, i + 2)
         IN  IF ~v.ok THEN ParseFailure
             ELSE LET now == (StringOf(tokens[i]) :> v.value) @@ members
                  IN  IF TokenAt(tokens, v.next) = "}"
                      THEN Parsed(JsonDict(now), v.next + 1)
                      ELSE IF TokenAt(tokens, v.next) = ","
                           THEN ParseMembers(tokens, v.next + 1, now)
                      ELSE ParseFailure

ParseValue(tokens, i) ==
    LET token == TokenAt(tokens, i)
    IN  IF token = "null" THEN Parsed(JsonNone, i + 1)
        ELSE IF IsStringToken(token) THEN Parsed(JsonStr(StringOf(token)), i + 1)
        ELSE IF token = "["
             THEN IF TokenAt(tokens, i + 1) = "]"
                  THEN Parsed(JsonList(<< >>), i + 2)
                  ELSE ParseItems(tokens, i + 1, << >>)
        ELSE IF token = "{"
             THEN IF TokenAt(tokens, i + 1) = "}"
                  THEN Parsed(JsonDict(EmptyDict), i + 2)
                  ELSE ParseMembers(tokens, i + 1, EmptyDict)
        ELSE ParseFailure

\* json.loads: one value and nothing after it, or JSONDecodeError
JsonLoads(tokens) ==
    LET v == ParseValue(tokens, 1)
    IN  IF v.ok /\ v.next = Len(tokens) + 1 THEN v ELSE ParseFailure

\* The dict of the model for a parsed dict.
RECURSIVE AsData(_)
AsData(value) ==
    IF value.type = "dict"
    THEN [key \in DOMAIN value.members |-> AsData(value.members[key])]
    ELSE IF value.type = "list"
    THEN [k \in 1..Len(value.items) |-> AsData(value.items[k])]
    ELSE IF value.type = "str" THEN value.text
    ELSE "None"

\* hume_data.get(...) and language.get(...) in create_emotional_summary raise
\* AttributeError on a value that is not a dict.
RaisesAttributeError(value) ==
    \/ value.type # "dict"
    \/ /\ "language" \in DOMAIN value.members
       /\ value.members["language"].type # "dict"

Raised(exception) == [raised |-> exception]

process_hume_data(hume_json_str, strategy) ==
    LET loaded == JsonLoads(hume_json_str)
    IN  IF ~loaded.ok THEN [error |-> "Invalid JSON data"]
        ELSE IF RaisesAttributeError(loaded.value) THEN Raised("AttributeError")
        ELSE create_emotional_summary(AsData(loaded.value), strategy, EmptyDict)

(***************************************************************************)
(* WatchMeIntegration.combine_transcriptions                               *)
(*                                                                         *)
(* A session is a record of its number, of its text and of its entries;    *)
(* an entry holds time and text, and one history field, src: the index of  *)
(* its record in the list passed in.                                        *)
(***************************************************************************)
DaySeconds == 86400

\* The order of two recorded_at strings: date, time of day, then the string
\* without suffix before the one with it.
RecordedAtLeq(a, b) ==
    \/ a.day < b.day
    \/ a.day = b.day /\ a.second < b.second
    \/ a.day = b.day /\ a.second = b.second /\ (a.zone = "" \/ b.zone # "")

\* Where x goes in a list already sorted by recorded_at (sorted is stable).
RECURSIVE InsertByRecordedAt(_, _)
InsertByRecordedAt(sorted, x) ==
    IF sorted = << >> THEN <<x>>
    ELSE IF RecordedAtLeq(Head(sorted).recorded_at, x.recorded_at)
         THEN <<Head(sorted)>> \o InsertByRecordedAt(Tail(sorted), x)
         ELSE <<x>> \o sorted

RECURSIVE SortByRecordedAtFrom(_, _, _)
SortByRecordedAtFrom(sorted, records, i) ==
    IF i > Len(records) THEN sorted
    ELSE SortByRecordedAtFrom(
             InsertByRecordedAt(sorted, records[i] @@ [src |-> i]), records, i + 1)

\* sorted(records, key=lambda x: x['recorded_at'])
SortByRecordedAt(records) == SortByRecordedAtFrom(<< >>, records, 1)

\* datetime.fromisoformat(ts_str) after the suffix is split off
Timestamp(recorded_at) == [day |-> recorded_at.day, second |-> recorded_at.second]

\* (timestamp - last_timestamp).seconds: the seconds within the day of the
\* difference, the days left out
TimedeltaSeconds(timestamp, last_timestamp) ==
    ((timestamp.day - last_timestamp.day) * DaySeconds
        + (timestamp.second - last_timestamp.second)) % DaySeconds

DigitChars == <<"0", "1", "2", "3", "4", "5", "6", "7", "8", "9">>

\* f"{n}" for 0 <= n < 100
FormatInt(n) ==
    IF n < 10 THEN DigitChars[n + 1]
    ELSE DigitChars[(n \div 10) + 1] \o DigitChars[(n % 10) + 1]

\* f"{n:02d}" for 0 <= n < 100
Format02d(n) == DigitChars[(n \div 10) + 1] \o DigitChars[(n % 10) + 1]

\* timestamp.strftime('%H:%M')
StrftimeHM(timestamp) ==
    Format02d(timestamp.second \div 3600) \o ":"
        \o Format02d((timestamp.second % 3600) \div 60)

\* _format_session
FormatSession(session_records, session_num) ==
    [ num |-> session_num,
      entries |-> session_records,
      text |-> Join("\n",
                 <<"[Session " \o FormatInt(session_num) \o "]">>
                   \o [k \in 1..Len(session_records) |->
                         "[" \o session_records[k].time \o "] "
                             \o session_records[k].text]) ]

\* the test that opens a new session
NewSession(last_timestamp, timestamp, session_gap_minutes) ==
    /\ last_timestamp # << >>
    /\ TimedeltaSeconds(timestamp, last_timestamp[1]) > session_gap_minutes * 60

\* the loop "for record in sorted_records", and "Add final session" after it;
\* last_timestamp is << >> for None, <<timestamp>> otherwise
RECURSIVE CombineLoop(_, _, _, _, _, _)
CombineLoop(conversation_parts, current_session, last_timestamp, sorted_records, i, session_gap_minutes) ==
    IF i > Len(sorted_records)
    THEN IF current_session # << >>
         THEN Append(conversation_parts,
                     FormatSession(current_session, Len(conversation_parts) + 1))
         ELSE conversation_parts
    ELSE LET record == sorted_records[i]
             timestamp == Timestamp(record.recorded_at)
             closes == /\ NewSession(last_timestamp, timestamp, session_gap_minutes)
                       /\ current_session # << >>
             entry == [ time |-> Get(record, "local_time", StrftimeHM(timestamp)),
                        text |-> record.transcription,
                        src |-> record.src ]
         IN  CombineLoop(
                 IF closes
                 THEN Append(conversation_parts,
                             FormatSession(current_session, Len(conversation_parts) + 1))
                 ELSE conversation_parts,
                 (IF closes THEN << >> ELSE current_session) \o <<entry>>,
                 <<timestamp>>, sorted_records, i + 1, session_gap_minutes)

SessionSeparator == "\n\n---\n\n"

combine_transcriptions(records, session_gap_minutes) ==
    IF records = << >> THEN [text |-> "", sessions |-> << >>]
    ELSE LET conversation_parts ==
                 CombineLoop(<< >>, << >>, << >>, SortByRecordedAt(records), 1,
                             session_gap_minutes)
         IN  [ text |-> Join(SessionSeparator,
                             [k \in 1..Len(conversation_parts) |->
                                 conversation_parts[k].text]),
               sessions |-> conversation_parts ]

(***************************************************************************)
(* extract_json_from_response and extract_punchlines_endpoint (main.py)    *)
(***************************************************************************)
\* The indices of the tokens equal to t.
IndicesOf(tokens, t) == { i \in 1..Len(tokens) : tokens[i] = t }

Least(S) == CHOOSE x \in S : \A y \in S : x <= y
Greatest(S) == CHOOSE x \in S : \A y \in S : y <= x

\* The fallback dict; the text of the exception stands for str(e).
ProcessingError(exception, raw_response) ==
    JsonDict([ processing_error |-> JsonStr("JSON parsing error: " \o exception),
               raw_response |-> [type |-> "str", tokens |-> raw_response],
               extracted_content |-> [type |-> "str", tokens |-> raw_response] ])

\* json.loads(json_content) inside the outer try
LoadsOrError(json_content, raw_response) ==
    IF JsonLoads(json_content).ok THEN JsonLoads(json_content).value
    ELSE ProcessingError("JSONDecodeError", raw_response)

extract_json_from_response(raw_response) ==
    LET fences == IndicesOf(raw_response, "fence")
        opens == IndicesOf(raw_response, "{")
        closes == IndicesOf(raw_response, "}")
    IN  IF JsonLoads(raw_response).ok THEN JsonLoads(raw_response).value
        ELSE IF Cardinality(fences) >= 2
        THEN LET first == Least(fences)
                 second == Least(fences \ {first})
             IN  LoadsOrError(SubSeq(raw_response, first + 1, second - 1), raw_response)
        ELSE IF opens # {} /\ \E c \in closes : c > Least(opens)
        THEN LoadsOrError(SubSeq(raw_response, Least(opens), Greatest(closes)),
                          raw_response)
        ELSE ProcessingError("Failed to extract JSON data", raw_response)

\* a test that never finds the key
HasProcessingErrorNever(value) ==
    IF value.type = "NoneType" THEN "TypeError" ELSE "no"

\* "processing_error" in value: a key of a dict, an item of a list, a part of a
\* string; TypeError on None
HasProcessingError(value) ==
    IF value.type = "dict"
    THEN IF "processing_error" \in DOMAIN value.members THEN "yes" ELSE "no"
    ELSE IF value.type = "list"
    THEN IF \E k \in 1..Len(value.items) : value.items[k] = JsonStr("processing_error")
         THEN "yes" ELSE "no"
    ELSE IF value.type = "str"
    THEN IF value.text = "processing_error" THEN "yes" ELSE "no"
    ELSE "TypeError"

StepOrder ==
    << "save_punchline_request", "structure_conversation",
       "save_structured_conversation", "extract_punchlines",
       "save_punchline_results" >>

\* the request arrives; get_supabase_client returns the client or raises
EndpointReceive ==
    /\ pc = "idle"
    /\ \E request_id \in RequestIds \ db.punchline_requests :
          \E client \in BOOLEAN :
             /\ call' = [ op |-> "extract_punchlines_endpoint",
                          request_id |-> request_id, steps |-> << >>,
                          inserted |-> {}, failed |-> IF client THEN "" ELSE "get_supabase_client" ]
             /\ IF client
                THEN pc' = "save_punchline_request" /\ UNCHANGED result
                ELSE /\ pc' = "returned"
                     /\ result' = [status_code |-> 500,
                                    detail |-> "Internal server error: ValueError"]
    /\ UNCHANGED <<hume_data, running, db>>

\* A save method: the insert stores the row, returns no data, or raises.
Save(step, table, next) ==
    /\ pc = step
    /\ \E outcome \in {"inserted", "no data", "raises"} :
          IF outcome = "raises"
          THEN /\ pc' = "returned"
               /\ result' = [status_code |-> 500,
                              detail |-> "Internal server error: Exception"]
               /\ call' = [call EXCEPT !.steps = Append(@, step), !.failed = step]
               /\ UNCHANGED db
          ELSE /\ pc' = next
               /\ call' = [call EXCEPT
                      !.steps = Append(@, step),
                      !.inserted = IF outcome = "inserted" THEN @ \cup {table} ELSE @]
               /\ db' = IF outcome = "inserted"
                        THEN [db EXCEPT ![table] = @ \cup {call.request_id}]
                        ELSE db
               /\ UNCHANGED result
    /\ UNCHANGED <<hume_data, running>>

\* A pipeline: the LLM call raises, or its answer goes through
\* extract_json_from_response and the test for "processing_error".
Pipeline(step, field, next, failure) ==
    /\ pc = step
    /\ \/ /\ pc' = "returned"
          /\ result' = [status_code |-> 500,
                         detail |-> "Internal server error: Exception"]
          /\ call' = [call EXCEPT !.steps = Append(@, step), !.failed = step]
       \/ \E raw_response \in RawResponses :
             LET value == extract_json_from_response(raw_response)
                 found == HasProcessingError(value)
                 ran == (field :> value)
                          @@ [call EXCEPT !.steps = Append(@, step)]
             IN  IF found = "no"
                 THEN /\ pc' = next
                      /\ call' = ran
                      /\ UNCHANGED result
                 ELSE /\ pc' = "returned"
                      /\ call' = [ran EXCEPT !.failed = step]
                      /\ result' =
                            [ status_code |-> 500,
                              detail |-> IF found = "yes" /\ value.type = "dict"
                                         THEN failure
                                         ELSE IF found = "yes"
                                         THEN "Internal server error: AttributeError"
                                         ELSE "Internal server error: TypeError" ]
    /\ UNCHANGED <<hume_data, running, db>>

SavePunchlineRequest ==
    /\ pc = "save_punchline_request"
    /\ Save("save_punchline_request", "punchline_requests", "structure_conversation")

StructureConversation ==
    /\ pc = "structure_conversation"
    /\ Pipeline("structure_conversation", "structured_conversation",
                "save_structured_conversation", "Failed to structure conversation")

\* structured_conversation.get(...) in the arguments raises on a list
SaveStructuredConversation ==
    \/ /\ pc = "save_structured_conversation"
       /\ call.structured_conversation.type # "dict"
       /\ pc' = "returned"
       /\ result' = [status_code |-> 500,
                      detail |-> "Internal server error: AttributeError"]
       /\ call' = [call EXCEPT !.failed = "save_structured_conversation"]
       /\ UNCHANGED <<hume_data, running, db>>
    \/ /\ pc = "save_structured_conversation"
       /\ call.structured_conversation.type = "dict"
       /\ Save("save_structured_conversation", "punchline_structured_conversations",
               "extract_punchlines")

ExtractPunchlines ==
    /\ pc = "extract_punchlines"
    /\ Pipeline("extract_punchlines", "punchlines_result", "save_punchline_results",
                "Failed to extract punchlines")

\* punchlines_result.get(...) in the metadata raises on a list; after the save
\* the endpoint builds the ExtractionResponse, whose validation may raise
SavePunchlineResults ==
    /\ pc = "save_punchline_results"
    /\ IF call.punchlines_result.type # "dict"
       THEN /\ pc' = "returned"
            /\ result' = [status_code |-> 500,
                           detail |-> "Internal server error: AttributeError"]
            /\ call' = [call EXCEPT !.failed = "save_punchline_results"]
            /\ UNCHANGED db
       ELSE \E outcome \in {"inserted", "no data", "raises"}, valid \in BOOLEAN :
               /\ pc' = "returned"
               /\ call' = [call EXCEPT
                      !.steps = Append(@, "save_punchline_results"),
                      !.failed = IF outcome = "raises" THEN "save_punchline_results"
                                 ELSE IF ~valid THEN "ExtractionResponse"
                                 ELSE @,
                      !.inserted = IF outcome = "inserted"
                                   THEN @ \cup {"punchline_results"} ELSE @]
               /\ db' = IF outcome = "inserted"
                        THEN [db EXCEPT !.punchline_results = @ \cup {call.request_id}]
                        ELSE db
               /\ result' = IF outcome = "raises"
                            THEN [status_code |-> 500,
                                  detail |-> "Internal server error: Exception"]
                            ELSE IF ~valid
                            THEN [status_code |-> 500,
                                  detail |-> "Internal server error: ValidationError"]
                            ELSE [status_code |-> 200, status |-> "success",
                                  request_id |-> call.request_id]
    /\ UNCHANGED <<hume_data, running>>

(***************************************************************************)
(* Calls that run side by side.  The five operations are static methods    *)
(* whose working lists (peaks, transitions, summary, lines, candidates,     *)
(* merged) are local variables: each call has a frame of its own.  A call   *)
(* runs its statements one at a time, and the statements of two calls may   *)
(* interleave in any order.                                                 *)
(***************************************************************************)
Callers == {"a", "b"}

Operations ==
    { "extract_emotional_peaks", "detect_emotional_transitions",
      "create_emotional_summary", "format_for_prompt",
      "identify_punchline_candidates" }

IdleCall == [pc |-> "idle"]

\* The local variables of a call before its first statement.
EmptyFrame ==
    [ peaks |-> << >>, transitions |-> << >>, summary |-> EmptyDict,
      lines |-> << >>, candidates |-> << >>, merged |-> << >> ]

NoneRunning ==
    [ calls |-> [c \in Callers |-> IdleCall],
      frames |-> [c \in Callers |-> EmptyFrame] ]

\* one frame for every call, as if the working lists were class attributes
FrameOfShared(c) == "a"

\* the frame holding the local variables of the call of c
FrameOf(c) == c

\* The first argument of an operation.
ConcInputs(op) ==
    IF op = "format_for_prompt"
    THEN { create_emotional_summary(d, "full_summary", EmptyDict) : d \in ConcRecords }
    ELSE ConcRecords

\* The remaining arguments: the defaults of the signature, and the two
\* strategies that compute peaks.
ConcArgs(op) ==
    IF op = "extract_emotional_peaks"
    THEN { [top_n |-> DefaultTopN, threshold |-> DefaultThreshold] }
    ELSE IF op = "detect_emotional_transitions"
    THEN { [change_threshold |-> DefaultChangeThreshold] }
    ELSE IF op = "create_emotional_summary"
    THEN { [strategy |-> "peaks"], [strategy |-> "full_summary"] }
    ELSE IF op = "identify_punchline_candidates"
    THEN { [time_window |-> 2] }
    ELSE { EmptyDict }

\* The number of statements of an operation before its return statement.
Statements(op) ==
    IF op = "extract_emotional_peaks" THEN 2
    ELSE IF op = "detect_emotional_transitions" THEN 1
    ELSE IF op = "create_emotional_summary" THEN 2
    ELSE IF op = "format_for_prompt" THEN 1
    ELSE 3

\* The frame after statement "at" of an operation.
Statement(op, at, input, arg, frame) ==
    IF op = "extract_emotional_peaks"
    THEN IF at = 1
         THEN [frame EXCEPT !.peaks = EmittedPeaks(input, arg.threshold)]
         ELSE [frame EXCEPT !.peaks = SortByScore(@)]
    ELSE IF op = "detect_emotional_transitions"
    THEN [frame EXCEPT !.transitions =
                            detect_emotional_transitions(input, arg.change_threshold)]
    ELSE IF op = "create_emotional_summary"
    THEN IF at = 1
         THEN [frame EXCEPT !.summary = Mood(input)]
         ELSE [frame EXCEPT !.summary = @ @@ StrategyPart(input, arg.strategy, EmptyDict)]
    ELSE IF op = "format_for_prompt"
    THEN [frame EXCEPT !.lines = FormatLines(input)]
    ELSE IF at = 1
         THEN [frame EXCEPT !.candidates = Candidates(input, arg.time_window)]
         ELSE IF at = 2
         THEN [frame EXCEPT !.candidates = SortByStart(@)]
         ELSE [frame EXCEPT !.merged = MergeSweep(frame.candidates)]

\* The value of the return statement of an operation.
ReturnValue(op, arg, frame) ==
    IF op = "extract_emotional_peaks" THEN Take(frame.peaks, arg.top_n)
    ELSE IF op = "detect_emotional_transitions" THEN frame.transitions
    ELSE IF op = "create_emotional_summary" THEN frame.summary
    ELSE IF op = "format_for_prompt"
    THEN [ text |-> Join("\n", [k \in 1..Len(frame.lines) |-> LineText(frame.lines[k])]),
           lines |-> frame.lines ]
    ELSE Take(frame.merged, MaxCandidates)

\* A caller starts a call.
ConcCall(c) ==
    /\ running.calls[c].pc = "idle"
    /\ \E op \in Operations :
          \E input \in ConcInputs(op) :
             \E arg \in ConcArgs(op) :
                running' = [running EXCEPT
                    !.calls[c] = [pc |-> "running", at |-> 1, op |-> op,
                                  input |-> input, arg |-> arg],
                    !.frames[FrameOf(c)] = EmptyFrame]
    /\ UNCHANGED <<hume_data, pc, call, result, db>>

\* The call of c runs its next statement.
ConcStatement(c) ==
    LET k == running.calls[c]
    IN  /\ k.pc = "running"
        /\ k.at <= Statements(k.op)
        /\ running' = [running EXCEPT
               !.calls[c].at = @ + 1,
               !.frames[FrameOf(c)] = Statement(k.op, k.at, k.input, k.arg, @)]
        /\ UNCHANGED <<hume_data, pc, call, result, db>>

\* The call of c runs its return statement; its frame is gone.
ConcReturnValue(c) ==
    LET k == running.calls[c]
    IN  /\ k.pc = "running"
        /\ k.at = Statements(k.op) + 1
        /\ running' = [running EXCEPT
               !.calls[c] = [pc |-> "returned", op |-> k.op, input |-> k.input,
                             arg |-> k.arg,
                             result |-> ReturnValue(k.op, k.arg,
                                                    running.frames[FrameOf(c)])],
               !.frames[FrameOf(c)] = EmptyFrame]
        /\ UNCHANGED <<hume_data, pc, call, result, db>>

\* The caller of c takes the result.
ConcReturn(c) ==
    /\ running.calls[c].pc = "returned"
    /\ running' = [running EXCEPT !.calls[c] = IdleCall]
    /\ UNCHANGED <<hume_data, pc, call, result, db>>

InitConc ==
    /\ hume_data = EmptyDict
    /\ pc = "idle"
    /\ call = EmptyDict
    /\ result = << >>
    /\ running = NoneRunning
    /\ db = EmptyTables

NextConc ==
    \/ \E c \in Callers : ConcCall(c)
    \/ \E c \in Callers : ConcStatement(c)
    \/ \E c \in Callers : ConcReturnValue(c)
    \/ \E c \in Callers : ConcReturn(c)

SpecConc == InitConc /\ [][NextConc]_vars

(***************************************************************************)
(* The caller.                                                             *)
(***************************************************************************)
Init ==
    /\ hume_data \in Records
    /\ pc = "idle"
    /\ call = EmptyDict
    /\ result = << >>
    /\ running = NoneRunning
    /\ db = EmptyTables

CallExtractEmotionalPeaks ==
    /\ pc = "idle"
    /\ \E top_n \in 0..MaxTopN, threshold \in Thresholds :
          /\ call' = [op |-> "extract_emotional_peaks", top_n |-> top_n,
                      threshold |-> threshold]
          /\ result' = extract_emotional_peaks(hume_data, top_n, threshold)
    /\ pc' = "returned"
    /\ UNCHANGED <<hume_data, running, db>>

\* The caller drops the returned value; the processor keeps nothing of the call.
Return ==
    /\ pc = "returned"
    /\ pc' = "idle"
    /\ call' = EmptyDict
    /\ result' = << >>
    /\ UNCHANGED <<hume_data, running, db>>

CallDetectEmotionalTransitions ==
    /\ pc = "idle"
    /\ \E change_threshold \in Thresholds :
          /\ call' = [op |-> "detect_emotional_transitions",
                      change_threshold |-> change_threshold]
          /\ result' = detect_emotional_transitions(hume_data, change_threshold)
    /\ pc' = "returned"
    /\ UNCHANGED <<hume_data, running, db>>

CallCreateEmotionalSummary ==
    /\ pc = "idle"
    /\ \E strategy \in Strategies, kwargs \in KwargsPool :
          /\ call' = [op |-> "create_emotional_summary", strategy |-> strategy,
                      kwargs |-> kwargs]
          /\ result' = create_emotional_summary(hume_data, strategy, kwargs)
    /\ pc' = "returned"
    /\ UNCHANGED <<hume_data, running, db>>

CallFormatForPrompt ==
    /\ pc = "idle"
    /\ \E emotional_summary \in SummaryInputs(hume_data) :
          /\ call' = [op |-> "format_for_prompt",
                      emotional_summary |-> emotional_summary]
          /\ result' = format_for_prompt(emotional_summary)
    /\ pc' = "returned"
    /\ UNCHANGED <<hume_data, running, db>>

CallIdentifyPunchlineCandidates ==
    /\ pc = "idle"
    /\ \E time_window \in TimeWindows :
          /\ call' = [op |-> "identify_punchline_candidates",
                      time_window |-> time_window]
          /\ result' = identify_punchline_candidates(hume_data, time_window)
    /\ pc' = "returned"
    /\ UNCHANGED <<hume_data, running, db>>

Next ==
    \/ CallExtractEmotionalPeaks
    \/ CallDetectEmotionalTransitions
    \/ CallCreateEmotionalSummary
    \/ CallFormatForPrompt
    \/ CallIdentifyPunchlineCandidates
    \/ Return

Spec == Init /\ [][Next]_vars

\* The candidates of a record with many vocal bursts.
InitCand ==
    /\ hume_data \in CandRecords
    /\ pc = "idle"
    /\ call = EmptyDict
    /\ result = << >>
    /\ running = NoneRunning
    /\ db = EmptyTables

NextCand ==
    \/ CallIdentifyPunchlineCandidates
    \/ Return

SpecCand == InitCand /\ [][NextCand]_vars

CallProcessHumeData ==
    /\ pc = "idle"
    /\ \E hume_json_str \in RawInputs :
          \E strategy \in {"peaks", "full_summary"} :
             /\ call' = [op |-> "process_hume_data",
                         hume_json_str |-> hume_json_str, strategy |-> strategy]
             /\ result' = process_hume_data(hume_json_str, strategy)
    /\ pc' = "returned"
    /\ UNCHANGED <<hume_data, running, db>>

\* The entry point that takes raw input: no record is held.
InitProcess ==
    /\ hume_data = EmptyDict
    /\ pc = "idle"
    /\ call = EmptyDict
    /\ result = << >>
    /\ running = NoneRunning
    /\ db = EmptyTables

NextProcess ==
    \/ CallProcessHumeData
    \/ Return

SpecProcess == InitProcess /\ [][NextProcess]_vars

\* The candidates of a conversation with more than ten peaks.
InitMany ==
    /\ hume_data \in ManyRecords
    /\ pc = "idle"
    /\ call = EmptyDict
    /\ result = << >>
    /\ running = NoneRunning
    /\ db = EmptyTables

NextMany ==
    \/ CallIdentifyPunchlineCandidates
    \/ Return

SpecMany == InitMany /\ [][NextMany]_vars

CallCombineTranscriptions ==
    /\ pc = "idle"
    /\ \E records \in TranscriptionLists :
          \E session_gap_minutes \in SessionGaps :
             /\ call' = [op |-> "combine_transcriptions", records |-> records,
                         session_gap_minutes |-> session_gap_minutes]
             /\ result' = combine_transcriptions(records, session_gap_minutes)
    /\ pc' = "returned"
    /\ UNCHANGED <<hume_data, running, db>>

\* The transcriptions of a device: no annotation record is held.
InitCombine ==
    /\ hume_data = EmptyDict
    /\ pc = "idle"
    /\ call = EmptyDict
    /\ result = << >>
    /\ running = NoneRunning
    /\ db = EmptyTables

NextCombine ==
    \/ CallCombineTranscriptions
    \/ Return

SpecCombine == InitCombine /\ [][NextCombine]_vars

InitEndpoint ==
    /\ hume_data = EmptyDict
    /\ pc = "idle"
    /\ call = EmptyDict
    /\ result = << >>
    /\ running = NoneRunning
    /\ db = EmptyTables

NextEndpoint ==
    \/ EndpointReceive
    \/ SavePunchlineRequest
    \/ StructureConversation
    \/ SaveStructuredConversation
    \/ ExtractPunchlines
    \/ SavePunchlineResults
    \/ Return

SpecEndpoint == InitEndpoint /\ [][NextEndpoint]_vars

\* The summary of a long conversation.
InitLong ==
    /\ hume_data \in LongRecords
    /\ pc = "idle"
    /\ call = EmptyDict
    /\ result = << >>
    /\ running = NoneRunning
    /\ db = EmptyTables

NextLong ==
    \/ CallCreateEmotionalSummary
    \/ Return

SpecLong == InitLong /\ [][NextLong]_vars

(***************************************************************************)
(* Properties.                                                             *)
(***************************************************************************)
AfterExtract == pc = "returned" /\ call.op = "extract_emotional_peaks"

AfterDetect == pc = "returned" /\ call.op = "detect_emotional_transitions"

AfterSummary == pc = "returned" /\ call.op = "create_emotional_summary"

\* The segments of a channel of the record, the empty list when absent.
SegmentsOf(chan) == Get(Get(hume_data, chan, EmptyDict), "segments", << >>)

\* The segment a peak or a transition was built from.
SegmentAt(src) == SegmentsOf(src[1])[src[2]]

\* What the claims call a segment's score, name and begin time.
HasName(seg) ==
    /\ "dominant_emotion" \in DOMAIN seg
    /\ "name" \in DOMAIN seg.dominant_emotion

NameOrUnknown(seg) == IF HasName(seg) THEN seg.dominant_emotion.name ELSE "Unknown"

RawScore(seg) ==
    IF "dominant_emotion" \in DOMAIN seg /\ "score" \in DOMAIN seg.dominant_emotion
    THEN seg.dominant_emotion.score
    ELSE 0

BeginOrZero(seg) ==
    IF "time" \in DOMAIN seg /\ "begin" \in DOMAIN seg.time THEN seg.time.begin ELSE 0

\* The segments whose score reaches t, as (channel, index) pairs.
PassingSrcs(t) ==
    { <<"speech_prosody", i>> : i \in { k \in 1..Len(SegmentsOf("speech_prosody")) :
                                          RawScore(SegmentsOf("speech_prosody")[k]) >= t } }
      \cup
    { <<"vocal_burst", i>> : i \in { k \in 1..Len(SegmentsOf("vocal_burst")) :
                                       RawScore(SegmentsOf("vocal_burst")[k]) >= t } }

ResultSrcs == { result[k].src : k \in 1..Len(result) }

\* Emission order: prosody before vocal burst, then segment order.
EmittedBefore(a, b) ==
    \/ a[1] = "speech_prosody" /\ b[1] = "vocal_burst"
    \/ a[1] = b[1] /\ a[2] < b[2]

\* C1 as stated: every returned peak's 2-decimal score field is >= the threshold.
C1_ScoreFieldAtLeastThreshold ==
    AfterExtract => \A k \in 1..Len(result) : result[k].score >= call.threshold

\* C1 (amended): every returned peak is built from a segment whose unrounded score
\* (0 when missing) is >= the threshold, and its 2-decimal score field is >= the
\* threshold rounded to 2 decimals.
C1_RawScoreAtLeastThreshold ==
    AfterExtract =>
        \A k \in 1..Len(result) :
            /\ RawScore(SegmentAt(result[k].src)) >= call.threshold
            /\ result[k].score >= Round2(call.threshold)

\* A peak is returned whose score field lies below the threshold its segment reached.
C1_Witness ==
    /\ AfterExtract
    /\ \E k \in 1..Len(result) :
          /\ result[k].score < call.threshold
          /\ RawScore(SegmentAt(result[k].src)) = call.threshold

\* C2: the returned list has at most top_n peaks and their score fields never
\* increase from one peak to the next.
C2_LengthAndOrder ==
    AfterExtract =>
        /\ Len(result) <= call.top_n
        /\ \A i, j \in 1..Len(result) : i < j => result[i].score >= result[j].score

\* A truncated list of two peaks whose order is not the emission order.
C2_Witness ==
    /\ AfterExtract
    /\ Len(result) = 2
    /\ call.top_n = 2
    /\ Cardinality(PassingSrcs(call.threshold)) > 2
    /\ result[1].score > result[2].score
    /\ EmittedBefore(result[2].src, result[1].src)

\* C3 as stated: the sort and the truncation go by unrounded scores, so no returned
\* peak follows a peak of strictly lower unrounded score, and no segment is dropped
\* while a segment of strictly lower unrounded score is returned.
C3_RawScoreOrder ==
    AfterExtract =>
        /\ \A i, j \in 1..Len(result) :
              i < j => RawScore(SegmentAt(result[i].src)) >= RawScore(SegmentAt(result[j].src))
        /\ \A e \in PassingSrcs(call.threshold) \ ResultSrcs :
              \A k \in 1..Len(result) :
                  RawScore(SegmentAt(result[k].src)) >= RawScore(SegmentAt(e))

\* C4: for the same record and top_n, no lower threshold returns fewer peaks.
C4_CountMonotone ==
    AfterExtract =>
        \A t1 \in Thresholds :
            t1 <= call.threshold =>
                Len(result) <= Len(extract_emotional_peaks(hume_data, call.top_n, t1))

\* A threshold that returns some peaks, and strictly fewer than a lower one.
C4_Witness ==
    /\ AfterExtract
    /\ Len(result) > 0
    /\ \E t1 \in Thresholds :
          /\ t1 < call.threshold
          /\ Len(result) < Len(extract_emotional_peaks(hume_data, call.top_n, t1))

\* The snippet the claim gives a prosody peak: 30 characters of text at most, then
\* the marker.
ExpectedSnippet(seg) ==
    LET text == IF "text" \in DOMAIN seg THEN seg.text ELSE << >>
        n == IF Len(text) < 30 THEN Len(text) ELSE 30
    IN  [k \in 1..(n + 3) |-> IF k <= n THEN text[k] ELSE "."]

ExpectedLabel(src) ==
    IF src[1] = "vocal_burst"
    THEN "VocalBurst:" \o NameOrUnknown(SegmentAt(src))
    ELSE NameOrUnknown(SegmentAt(src))

\* C5: with top_n at least the number of segments, the peaks are, one for one, the
\* prosody and vocal-burst segments whose score (0 when missing) is >= threshold;
\* each has its segment's begin time (0 when missing) and name ("Unknown" when
\* missing), a vocal-burst peak the "VocalBurst:" prefix and the placeholder
\* snippet, a prosody peak the first 30 characters of its text and the marker.
C5_OnePeakPerPassingSegment ==
    (AfterExtract
       /\ call.top_n >= Len(SegmentsOf("speech_prosody")) + Len(SegmentsOf("vocal_burst")))
    =>
        /\ Len(result) = Cardinality(PassingSrcs(call.threshold))
        /\ ResultSrcs = PassingSrcs(call.threshold)
        /\ \A k \in 1..Len(result) :
              /\ result[k].time = BeginOrZero(SegmentAt(result[k].src))
              /\ result[k].emotion = ExpectedLabel(result[k].src)
              /\ result[k].text_snippet =
                    IF result[k].src[1] = "vocal_burst"
                    THEN NonVerbalSnippet
                    ELSE ExpectedSnippet(SegmentAt(result[k].src))

\* Above a positive threshold, a vocal-burst peak without a name beside a prosody
\* peak whose text is shorter than 30 characters.
C5_Witness ==
    /\ AfterExtract
    /\ call.threshold > 0
    /\ call.top_n >= Len(SegmentsOf("speech_prosody")) + Len(SegmentsOf("vocal_burst"))
    /\ \E k \in 1..Len(result) : result[k].emotion = "VocalBurst:Unknown"
    /\ \E k \in 1..Len(result) :
          /\ result[k].src[1] = "speech_prosody"
          /\ result[k].text_snippet = ShortText \o Ellipsis

\* C6: peaks of equal score field are returned in emission order (prosody before
\* vocal burst, then segment order), and a dropped peak was emitted after every
\* returned peak of its score.
C6_TiesKeepEmissionOrder ==
    AfterExtract =>
        /\ \A i, j \in 1..Len(result) :
              (i < j /\ result[i].score = result[j].score)
                  => EmittedBefore(result[i].src, result[j].src)
        /\ \A e \in PassingSrcs(call.threshold) \ ResultSrcs :
              \A k \in 1..Len(result) :
                  result[k].score = Round2(RawScore(SegmentAt(e)))
                      => EmittedBefore(result[k].src, e)

\* Two returned peaks tie, one prosody and one vocal burst, and a third of the same
\* score was cut off.
C6_Witness ==
    /\ AfterExtract
    /\ Len(result) = 2
    /\ result[1].score = result[2].score
    /\ \E e \in PassingSrcs(call.threshold) \ ResultSrcs :
          Round2(RawScore(SegmentAt(e))) = result[1].score

\* The dominant-emotion names of two segments are equal: both missing, or both
\* present and the same string.
SameName(a, b) ==
    \/ ~HasName(a) /\ ~HasName(b)
    \/ HasName(a) /\ HasName(b) /\ a.dominant_emotion.name = b.dominant_emotion.name

\* C7: no transition for a record with fewer than 2 prosody segments, and none at
\* a segment whose dominant-emotion name equals its predecessor's.
C7_NoTransitionWithoutChange ==
    AfterDetect =>
        /\ Len(SegmentsOf("speech_prosody")) < 2 => result = << >>
        /\ \A k \in 1..Len(result) :
              LET i == result[k].src[2]
              IN  /\ i \in 2..Len(SegmentsOf("speech_prosody"))
                  /\ ~SameName(SegmentsOf("speech_prosody")[i - 1],
                               SegmentsOf("speech_prosody")[i])

\* A transition is returned, and a pair of equal names whose later segment reaches
\* the threshold is passed over.
C7_Witness ==
    /\ AfterDetect
    /\ Len(result) > 0
    /\ \E i \in 2..Len(SegmentsOf("speech_prosody")) :
          /\ SameName(SegmentsOf("speech_prosody")[i - 1], SegmentsOf("speech_prosody")[i])
          /\ HasName(SegmentsOf("speech_prosody")[i])
          /\ RawScore(SegmentsOf("speech_prosody")[i]) >= call.change_threshold

\* The indices at which the claim expects a transition.
ExpectedTransitionIndices ==
    { i \in 2..Len(SegmentsOf("speech_prosody")) :
        /\ ~SameName(SegmentsOf("speech_prosody")[i - 1], SegmentsOf("speech_prosody")[i])
        /\ RawScore(SegmentsOf("speech_prosody")[i]) >= call.change_threshold }

\* C8: exactly one transition for each index whose name differs from its
\* predecessor's and whose score is >= change_threshold, in increasing index order,
\* carrying that segment's begin time, the two names ("Unknown" when missing) and
\* the score rounded to 2 decimals.
C8_ExactTransitions ==
    AfterDetect =>
        /\ { result[k].src[2] : k \in 1..Len(result) } = ExpectedTransitionIndices
        /\ \A j, k \in 1..Len(result) : j < k => result[j].src[2] < result[k].src[2]
        /\ \A k \in 1..Len(result) :
              LET i == result[k].src[2]
                  prev == SegmentsOf("speech_prosody")[i - 1]
                  curr == SegmentsOf("speech_prosody")[i]
              IN  /\ result[k].time = BeginOrZero(curr)
                  /\ result[k].from_emotion = NameOrUnknown(prev)
                  /\ result[k].to_emotion = NameOrUnknown(curr)
                  /\ result[k].intensity = Round2(RawScore(curr))

\* Two transitions out of three segments whose begin times differ.
C8_Witness ==
    /\ AfterDetect
    /\ Len(result) = 2
    /\ result[1].time # result[2].time
    /\ result[1].intensity # RawScore(SegmentAt(result[1].src))

\* C9: the summary has overall_mood and mood_confidence exactly when the record has
\* a language segment, and both come from the first language segment.
C9_MoodFromFirstLanguageSegment ==
    AfterSummary =>
        /\ "overall_mood" \in DOMAIN result <=> Len(SegmentsOf("language")) > 0
        /\ "mood_confidence" \in DOMAIN result <=> Len(SegmentsOf("language")) > 0
        /\ Len(SegmentsOf("language")) > 0 =>
              /\ result.overall_mood = NameOrUnknown(SegmentsOf("language")[1])
              /\ result.mood_confidence = Round2(RawScore(SegmentsOf("language")[1]))

\* A summary of a record whose later language segment differs from its first.
C9_Witness ==
    /\ AfterSummary
    /\ Len(SegmentsOf("language")) >= 2
    /\ NameOrUnknown(SegmentsOf("language")[2]) # NameOrUnknown(SegmentsOf("language")[1])
    /\ result.overall_mood = "Sadness"

\* C10: a strategy other than "peaks", "transitions" and "full_summary" returns a
\* summary with no key besides overall_mood and mood_confidence.
C10_UnknownStrategyMoodOnly ==
    (AfterSummary /\ call.strategy \notin {"peaks", "transitions", "full_summary"})
    => DOMAIN result \subseteq {"overall_mood", "mood_confidence"}

\* An unknown strategy on a record with a mood and a prosody segment above the
\* default threshold.
C10_Witness ==
    /\ AfterSummary
    /\ call.strategy = "sentiment"
    /\ "overall_mood" \in DOMAIN result
    /\ \E i \in 1..Len(SegmentsOf("speech_prosody")) :
          RawScore(SegmentsOf("speech_prosody")[i]) >= DefaultThreshold

\* The transitions the claim refers to: those of the change threshold passed, or
\* of the default 0.2.
C11_Transitions ==
    detect_emotional_transitions(
        hume_data,
        IF "change_threshold" \in DOMAIN call.kwargs
        THEN call.kwargs.change_threshold ELSE 200)

\* C11: under strategy "transitions", emotional_transitions is the first min(5, n)
\* of the n transitions detected, in order, and never holds more than 5.
C11_FirstFiveTransitions ==
    (AfterSummary /\ call.strategy = "transitions") =>
        LET T == C11_Transitions
            E == result.emotional_transitions
        IN  /\ Len(E) <= 5
            /\ Len(E) = (IF Len(T) < 5 THEN Len(T) ELSE 5)
            /\ \A k \in 1..Len(E) : E[k] = T[k]

\* Six transitions are detected and five are kept.
C11_Witness ==
    /\ AfterSummary
    /\ call.strategy = "transitions"
    /\ Len(C11_Transitions) > 5
    /\ Len(result.emotional_transitions) = 5

\* The key moment the claim gives a peak: its time with one decimal and "s", its
\* label and its score as a whole percentage.
C12_Rendered(peak) ==
    [ time |-> ToString(peak.time) \o ".0s",
      event |-> peak.emotion \o " (" \o ToString(peak.score \div 10) \o "%)" ]

\* C12: under strategy "full_summary", key_moments holds at most 2 entries: the two
\* highest-ranked peaks of extract_emotional_peaks(record, 3, 0.35), in order; there
\* are never more key moments than segments whose score reaches 0.35.
C12_KeyMomentsTopTwo ==
    (AfterSummary /\ call.strategy = "full_summary") =>
        LET P == extract_emotional_peaks(hume_data, 3, 350)
            K == result.key_moments
        IN  /\ Len(K) <= 2
            /\ Len(K) = (IF Len(P) < 2 THEN Len(P) ELSE 2)
            /\ \A k \in 1..Len(K) : K[k] = C12_Rendered(P[k])
            /\ Len(K) <= Cardinality(PassingSrcs(350))

\* Three peaks reach 0.35, two key moments are kept, and a segment below 0.35 is
\* left out.
C12_Witness ==
    /\ AfterSummary
    /\ call.strategy = "full_summary"
    /\ Len(result.key_moments) = 2
    /\ Len(extract_emotional_peaks(hume_data, 3, 350)) = 3
    /\ \E i \in 1..Len(SegmentsOf("speech_prosody")) :
          /\ RawScore(SegmentsOf("speech_prosody")[i]) < 350
          /\ RawScore(SegmentsOf("speech_prosody")[i]) > 0

\* The names of the arc: the first transition's from_emotion, then the to_emotion
\* of the first 3 transitions.
C13_Names ==
    LET T == detect_emotional_transitions(hume_data, 250)
        n == IF Len(T) < 3 THEN Len(T) ELSE 3
    IN  <<T[1].from_emotion>> \o [k \in 1..n |-> T[k].to_emotion]

\* The places of a sequence that hold the first occurrence of their value.
C13_FirstOccurrences(names) ==
    { k \in 1..Len(names) : \A j \in 1..(k - 1) : names[j] # names[k] }

\* The names at the given places, in order, joined by the arrow.
RECURSIVE C13_ArrowJoin(_, _, _)
C13_ArrowJoin(names, keep, k) ==
    IF k > Len(names) THEN ""
    ELSE IF k \notin keep THEN C13_ArrowJoin(names, keep, k + 1)
    ELSE IF k = 1 THEN names[k] \o C13_ArrowJoin(names, keep, k + 1)
    ELSE " → " \o names[k] \o C13_ArrowJoin(names, keep, k + 1)

\* C13: under strategy "full_summary", emotional_arc is present exactly when a
\* transition is detected at change threshold 0.25, and it is then the first
\* transition's from_emotion followed by the to_emotion of the first 3 transitions,
\* each name at its first occurrence only, joined by arrows.
C13_EmotionalArc ==
    (AfterSummary /\ call.strategy = "full_summary") =>
        /\ "emotional_arc" \in DOMAIN result
              <=> Len(detect_emotional_transitions(hume_data, 250)) > 0
        /\ "emotional_arc" \in DOMAIN result =>
              result.emotional_arc =
                  C13_ArrowJoin(C13_Names, C13_FirstOccurrences(C13_Names), 1)

\* Four transitions, the fourth to a name the first three do not reach, and a
\* repeated name among the first three.
C13_Witness ==
    /\ AfterSummary
    /\ call.strategy = "full_summary"
    /\ Len(detect_emotional_transitions(hume_data, 250)) >= 4
    /\ detect_emotional_transitions(hume_data, 250)[4].to_emotion = "Anger"
    /\ result.emotional_arc = "Sadness → Joy"

AfterFormat == pc = "returned" /\ call.op = "format_for_prompt"

\* The place of a label in the fixed order of the lines.
C14_Rank(label) ==
    CASE label = "Overall mood" -> 1
      [] label = "Peak moments" -> 2
      [] label = "Emotional journey" -> 3
      [] label = "Key moments" -> 4
      [] OTHER -> 0

\* The summary key a line is rendered from.
C14_KeyOf(label) ==
    CASE label = "Overall mood" -> "overall_mood"
      [] label = "Peak moments" -> "emotional_peaks"
      [] label = "Emotional journey" -> "emotional_arc"
      [] label = "Key moments" -> "key_moments"
      [] OTHER -> "none"

\* C14: format_for_prompt emits no line whose key is absent from the summary, the
\* lines follow the order overall mood, peak moments, emotional journey, key
\* moments, and a summary holding only overall_mood (and mood_confidence) yields
\* exactly one line.
C14_LinesFollowKeys ==
    AfterFormat =>
        /\ \A k \in 1..Len(result.lines) :
              /\ C14_Rank(result.lines[k].label) > 0
              /\ C14_KeyOf(result.lines[k].label) \in DOMAIN call.emotional_summary
        /\ \A j, k \in 1..Len(result.lines) :
              j < k => C14_Rank(result.lines[j].label) < C14_Rank(result.lines[k].label)
        /\ (/\ "overall_mood" \in DOMAIN call.emotional_summary
            /\ DOMAIN call.emotional_summary \subseteq {"overall_mood", "mood_confidence"})
           => /\ Len(result.lines) = 1
              /\ result.text = "Overall mood: " \o call.emotional_summary.overall_mood

\* A summary with every channel gives the four lines.
C14_Witness ==
    /\ AfterFormat
    /\ Len(result.lines) = 4
    /\ result.lines[3].label = "Emotional journey"

\* The summaries create_emotional_summary returns for the record.
C15_Produced ==
    { create_emotional_summary(hume_data, strategy, EmptyDict) : strategy \in Strategies }

\* C15 as stated: for a summary create_emotional_summary returns, no line has an
\* empty content, and the key-moments line appears only when there is a key moment.
C15_NoEmptyLine ==
    (AfterFormat /\ call.emotional_summary \in C15_Produced) =>
        /\ \A k \in 1..Len(result.lines) : result.lines[k].content # ""
        /\ (\E k \in 1..Len(result.lines) : result.lines[k].label = "Key moments")
              => call.emotional_summary.key_moments # << >>

AfterIdentify == pc = "returned" /\ call.op = "identify_punchline_candidates"

\* The score field of the peak a part stands for, 0 for a burst.
C16_PartScore(part) ==
    IF part[1] = "peak" THEN Round2(RawScore(SegmentAt(part[2]))) ELSE 0

\* C16: at most 7 intervals are returned: the first min(7, m) entries of the
\* m-entry merged list, which is in ascending order of start.
C16_FirstSevenMerged ==
    AfterIdentify =>
        LET M == MergedCandidates(hume_data, call.time_window)
        IN  /\ Len(result) <= 7
            /\ Len(result) = (IF Len(M) < 7 THEN Len(M) ELSE 7)
            /\ \A k \in 1..Len(result) : result[k] = M[k]
            /\ \A j, k \in 1..Len(M) : j < k => M[j].start <= M[k].start

\* Eight merged intervals; the one left out holds a peak whose score is above
\* that of every peak of the first interval returned.
C16_Witness ==
    /\ AfterIdentify
    /\ call.time_window >= 0
    /\ Len(MergedCandidates(hume_data, call.time_window)) = 8
    /\ Len(result) = 7
    /\ \E p \in 1..Len(MergedCandidates(hume_data, call.time_window)[8].parts) :
          \A q \in 1..Len(result[1].parts) :
              C16_PartScore(MergedCandidates(hume_data, call.time_window)[8].parts[p])
                  > C16_PartScore(result[1].parts[q])

\* No segment of the record has a negative begin time.
C17_TimesNonNegative ==
    \A chan \in {"speech_prosody", "vocal_burst"} :
        \A i \in 1..Len(SegmentsOf(chan)) : BeginOrZero(SegmentsOf(chan)[i]) >= 0

\* C17: with non-negative segment times and time_window >= 0, every returned
\* interval has start >= 0 and end >= start.
C17_IntervalsWellFormed ==
    (AfterIdentify /\ call.time_window >= 0 /\ C17_TimesNonNegative) =>
        \A k \in 1..Len(result) :
            /\ result[k].start >= 0
            /\ result[k].end >= result[k].start

\* An interval clamped at 0 and an interval extended by a merge.
C17_Witness ==
    /\ AfterIdentify
    /\ call.time_window = 2
    /\ Len(result) >= 2
    /\ result[1].start = 0
    /\ result[1].end > 2
    /\ \E k \in 1..Len(result) : Len(result[k].parts) >= 3

\* C18: the merge sweep applied to a list the sweep returned gives the same list.
C18_MergeIdempotent ==
    AfterIdentify =>
        /\ MergeSweep(MergedCandidates(hume_data, call.time_window))
              = MergedCandidates(hume_data, call.time_window)
        /\ MergeSweep(result) = result

\* The first sweep merged an interval lying within the one before it, and the
\* interval after it as well.
C18_Witness ==
    /\ AfterIdentify
    /\ Len(result) >= 2
    /\ LET C == SortByStart(Candidates(hume_data, call.time_window))
       IN  \E i \in 2..(Len(C) - 1) :
              /\ C[i].end < C[i - 1].end
              /\ C[i + 1].start > C[i].end
              /\ C[i + 1].start <= C[i - 1].end

\* The value an operation returns when nothing else runs.
C19_Alone(op, input, arg) ==
    IF op = "extract_emotional_peaks"
    THEN extract_emotional_peaks(input, arg.top_n, arg.threshold)
    ELSE IF op = "detect_emotional_transitions"
    THEN detect_emotional_transitions(input, arg.change_threshold)
    ELSE IF op = "create_emotional_summary"
    THEN create_emotional_summary(input, arg.strategy, EmptyDict)
    ELSE IF op = "format_for_prompt" THEN format_for_prompt(input)
    ELSE identify_punchline_candidates(input, arg.time_window)

C19_ResultsAsAlone ==
    \A c \in Callers :
        running.calls[c].pc = "returned" =>
            running.calls[c].result
                = C19_Alone(running.calls[c].op, running.calls[c].input,
                            running.calls[c].arg)

C19_InputsKept ==
    \A c \in Callers :
        (running.calls[c].pc # "idle" /\ running'.calls[c].pc # "idle") =>
            /\ running'.calls[c].input = running.calls[c].input
            /\ running'.calls[c].arg = running.calls[c].arg

\* C19: the five operations leave their input unchanged and keep no state
\* between calls: however the statements of calls on different records
\* interleave, each call returns what it returns when run alone.
C19_CallsIndependent == [](C19_ResultsAsAlone) /\ [][C19_InputsKept]_vars

\* A call has returned a non-empty result while a call of the same operation on
\* another record is between its statements, with its working list filled.
C19_Witness ==
    /\ running.calls["a"].pc = "returned"
    /\ running.calls["b"].pc = "running"
    /\ running.calls["a"].op = "extract_emotional_peaks"
    /\ running.calls["b"].op = "extract_emotional_peaks"
    /\ running.calls["a"].input # running.calls["b"].input
    /\ running.calls["a"].result # << >>
    /\ running.calls["b"].at = 2
    /\ running.frames["b"].peaks # << >>
    /\ running.frames["b"].peaks # running.calls["a"].result

C20_HasBegin(seg) == "time" \in DOMAIN seg /\ "begin" \in DOMAIN seg.time

C20_HasScore(seg) ==
    "dominant_emotion" \in DOMAIN seg /\ "score" \in DOMAIN seg.dominant_emotion

C20_Label(src) == IF src[1] = "vocal_burst" THEN "VocalBurst:Unknown" ELSE "Unknown"

\* A peak stands for 0, "Unknown" and the empty text where its segment has none.
C20_PeakDefaults(peak) ==
    LET seg == SegmentAt(peak.src)
    IN  /\ ~C20_HasBegin(seg) => peak.time = 0
        /\ ~HasName(seg) => peak.emotion = C20_Label(peak.src)
        /\ ~C20_HasScore(seg) => peak.score = 0
        /\ (peak.src[1] = "speech_prosody" /\ "text" \notin DOMAIN seg)
              => peak.text_snippet = Ellipsis

C20_TransitionDefaults(t) ==
    LET curr == SegmentAt(t.src)
        prev == SegmentAt(<<t.src[1], t.src[2] - 1>>)
    IN  /\ ~C20_HasBegin(curr) => t.time = 0
        /\ ~HasName(curr) => t.to_emotion = "Unknown"
        /\ ~HasName(prev) => t.from_emotion = "Unknown"
        /\ ~C20_HasScore(curr) => t.intensity = 0

C20_SummaryDefaults(summary) ==
    /\ SegmentsOf("language") = << >> => "overall_mood" \notin DOMAIN summary
    /\ SegmentsOf("language") # << >> =>
          /\ "overall_mood" \in DOMAIN summary
          /\ "mood_confidence" \in DOMAIN summary
          /\ ~HasName(SegmentsOf("language")[1]) => summary.overall_mood = "Unknown"
          /\ ~C20_HasScore(SegmentsOf("language")[1]) => summary.mood_confidence = 0
    /\ \A key \in {"emotional_peaks", "key_moments"} \cap DOMAIN summary :
          (SegmentsOf("speech_prosody") = << >> /\ SegmentsOf("vocal_burst") = << >>)
              => summary[key] = << >>
    /\ "emotional_peaks" \in DOMAIN summary =>
          \A k \in 1..Len(summary.emotional_peaks) :
              C20_PeakDefaults(summary.emotional_peaks[k])
    /\ "emotional_transitions" \in DOMAIN summary =>
          /\ SegmentsOf("speech_prosody") = << >> => summary.emotional_transitions = << >>
          /\ \A k \in 1..Len(summary.emotional_transitions) :
                C20_TransitionDefaults(summary.emotional_transitions[k])

\* A burst without a begin time stands at second 0: some interval covers [0, 1].
C20_CandidateDefaults ==
    /\ (Len(result) < MaxCandidates
          /\ \E i \in 1..Len(SegmentsOf("vocal_burst")) :
                ~C20_HasBegin(SegmentsOf("vocal_burst")[i]))
          => \E k \in 1..Len(result) : result[k].start = 0 /\ result[k].end >= 1
    /\ (SegmentsOf("speech_prosody") = << >> /\ SegmentsOf("vocal_burst") = << >>)
          => result = << >>
    /\ \A k \in 1..Len(result) : \A p \in 1..Len(result[k].parts) :
          LET part == result[k].parts[p]
          IN  (part[1] = "peak" /\ ~C20_HasBegin(SegmentAt(part[2]))
                 /\ call.time_window >= 0)
                  => result[k].start = 0

\* C20: on a record with any of its channels, segment lists, begin times, texts,
\* dominant emotions, names and scores missing, each of the five operations
\* returns a value, with 0 for a missing number, "Unknown" for a missing label
\* and the empty sequence for a missing channel.
C20_DefaultsForMissing ==
    /\ AfterExtract =>
          /\ \A k \in 1..Len(result) : C20_PeakDefaults(result[k])
          /\ (SegmentsOf("speech_prosody") = << >> /\ SegmentsOf("vocal_burst") = << >>)
                => result = << >>
    /\ AfterDetect =>
          /\ \A k \in 1..Len(result) : C20_TransitionDefaults(result[k])
          /\ SegmentsOf("speech_prosody") = << >> => result = << >>
    /\ AfterSummary => C20_SummaryDefaults(result)
    /\ AfterFormat =>
          /\ C20_SummaryDefaults(call.emotional_summary)
          /\ (\E k \in 1..Len(result.lines) : result.lines[k].label = "Overall mood")
                <=> SegmentsOf("language") # << >>
    /\ AfterIdentify => C20_CandidateDefaults

\* A record without a vocal_burst channel whose peak comes from a segment with
\* no key at all.
C20_Witness ==
    /\ AfterExtract
    /\ "vocal_burst" \notin DOMAIN hume_data
    /\ \E k \in 1..Len(result) :
          /\ SegmentAt(result[k].src) = EmptyDict
          /\ result[k].time = 0
          /\ result[k].emotion = "Unknown"
          /\ result[k].score = 0
          /\ result[k].text_snippet = Ellipsis

AfterProcess == pc = "returned" /\ call.op = "process_hume_data"

\* The raw input parses into a JSON object.
C21_IsObject(tokens) == JsonLoads(tokens).ok /\ JsonLoads(tokens).value.type = "dict"

\* C21: process_hume_data returns {error: "Invalid JSON data"}, and raises
\* nothing, for every raw input that is not JSON or whose top level is not an
\* object.
C21_UnparseableGivesError ==
    (AfterProcess /\ ~C21_IsObject(call.hume_json_str)) =>
        result = [error |-> "Invalid JSON data"]

\* The emotion table: category names, matched as they are written.
C22_Table(label) ==
    CASE label \in {"Amusement", "Joy", "Excitement"} -> "High humor/joy moment"
      [] label \in {"Sadness", "Empathic Pain"} -> "Emotional/touching moment"
      [] label \in {"Surprise (positive)", "Surprise (negative)"} -> "Unexpected twist"
      [] label \in {"Contemplation", "Realization"} -> "Insightful observation"
      [] OTHER -> "Strong " \o label \o " moment"

\* The parts of the merged list, as (interval index, part index) pairs.
C22_Parts(M) == UNION { { <<k, j>> : j \in 1..Len(M[k].parts) } : k \in 1..Len(M) }

C22_IsPeakPart(part) == part[1] = "peak"

\* What a part contributes: its start, its end and its reason.
C22_PartStart(part, w) ==
    IF C22_IsPeakPart(part)
    THEN (IF BeginOrZero(SegmentAt(part[2])) - w > 0
          THEN BeginOrZero(SegmentAt(part[2])) - w ELSE 0)
    ELSE (IF BeginOrZero(SegmentAt(part[2])) - 1 > 0
          THEN BeginOrZero(SegmentAt(part[2])) - 1 ELSE 0)

C22_PartEnd(part, w) ==
    IF C22_IsPeakPart(part) THEN BeginOrZero(SegmentAt(part[2])) + w
    ELSE BeginOrZero(SegmentAt(part[2])) + 1

C22_PartReason(part) ==
    IF ~C22_IsPeakPart(part) THEN "Non-verbal expression"
    ELSE IF part[2][1] = "vocal_burst"
         THEN "Strong VocalBurst:" \o NameOrUnknown(SegmentAt(part[2])) \o " moment"
         ELSE C22_Table(NameOrUnknown(SegmentAt(part[2])))

\* C22: the peak intervals stand for the at most 10 peaks of
\* extract_emotional_peaks(record, 10, 0.25), each [max(0, time - time_window),
\* time + time_window] with the reason the emotion table gives its label as
\* written; a "VocalBurst:" label gets the generic reason.
C22_PeakIntervals ==
    AfterIdentify =>
        LET M == MergedCandidates(hume_data, call.time_window)
            w == call.time_window
            top == extract_emotional_peaks(hume_data, 10, 250)
            peakSrcs == { M[x[1]].parts[x[2]][2] :
                            x \in { y \in C22_Parts(M) :
                                      C22_IsPeakPart(M[y[1]].parts[y[2]]) } }
        IN  /\ Cardinality(peakSrcs) <= 10
            /\ peakSrcs = { top[k].src : k \in 1..Len(top) }
            /\ \A k \in 1..Len(M) :
                  /\ M[k].reason =
                        Join(" + ", [j \in 1..Len(M[k].parts) |->
                                        C22_PartReason(M[k].parts[j])])
                  /\ M[k].start = C22_PartStart(M[k].parts[1], w)
                  /\ \A j \in 1..Len(M[k].parts) :
                        M[k].end >= C22_PartEnd(M[k].parts[j], w)
                  /\ \E j \in 1..Len(M[k].parts) :
                        M[k].end = C22_PartEnd(M[k].parts[j], w)

\* Eleven segments reach 0.25; the result holds the interval of the peak named in
\* lower case and an interval with the peak of a vocal burst.
C22_Witness ==
    /\ AfterIdentify
    /\ call.time_window = 2
    /\ Cardinality(PassingSrcs(250)) = 11
    /\ \E k \in 1..Len(result) :
          result[k] = [start |-> 18, end |-> 22, reason |-> "Strong joy moment",
                       parts |-> << <<"peak", <<"speech_prosody", 3>> >> >>]
    /\ \E k \in 1..Len(result) : \E j \in 1..Len(result[k].parts) :
          /\ result[k].parts[j][1] = "peak"
          /\ result[k].parts[j][2][1] = "vocal_burst"

\* The parts of the merged list that stand for a vocal-burst entry.
C23_BurstParts(M) ==
    { x \in C22_Parts(M) : M[x[1]].parts[x[2]][1] = "burst" }

\* C23: every entry of the vocal-burst channel gives one interval
\* [max(0, time - 1), time + 1] with reason "Non-verbal expression", whatever its
\* score; before merging there are as many intervals as retained peaks plus
\* vocal-burst entries.
C23_OneIntervalPerBurst ==
    AfterIdentify =>
        LET M == MergedCandidates(hume_data, call.time_window)
            bursts == SegmentsOf("vocal_burst")
            top == extract_emotional_peaks(hume_data, 10, 250)
        IN  /\ Cardinality(C22_Parts(M)) = Len(top) + Len(bursts)
            /\ Cardinality(C23_BurstParts(M)) = Len(bursts)
            /\ { M[x[1]].parts[x[2]][2] : x \in C23_BurstParts(M) }
                  = { <<"vocal_burst", i>> : i \in 1..Len(bursts) }
            /\ \A x \in C23_BurstParts(M) :
                  LET t == BeginOrZero(SegmentAt(M[x[1]].parts[x[2]][2]))
                  IN  /\ M[x[1]].start <= (IF t > 1 THEN t - 1 ELSE 0)
                      /\ M[x[1]].end >= t + 1
                      /\ Len(M[x[1]].parts) = 1 =>
                            /\ M[x[1]].start = (IF t > 1 THEN t - 1 ELSE 0)
                            /\ M[x[1]].end = t + 1
                            /\ M[x[1]].reason = "Non-verbal expression"

\* Eleven segments reach 0.25, so the weakest of them, a vocal burst, is no peak;
\* it and a burst below 0.25 each have an interval of their own in the result.
C23_Witness ==
    /\ AfterIdentify
    /\ Cardinality(PassingSrcs(250)) = 11
    /\ \E i, j \in 1..Len(SegmentsOf("vocal_burst")) :
          /\ RawScore(SegmentsOf("vocal_burst")[i]) < 250
          /\ RawScore(SegmentsOf("vocal_burst")[j]) >= 250
          /\ \E k \in 1..Len(result) :
                result[k].parts = << <<"burst", <<"vocal_burst", i>> >> >>
          /\ \E k \in 1..Len(result) :
                /\ result[k].parts = << <<"burst", <<"vocal_burst", j>> >> >>
                /\ result[k].reason = "Non-verbal expression"

\* The intervals before merging, peak-derived first, and the place of each in
\* the stable order by start.
C24_Place(C, i) ==
    1 + Cardinality({ j \in 1..Len(C) : C[j].start < C[i].start })
      + Cardinality({ j \in 1..(i - 1) : C[j].start = C[i].start })

C24_Sorted(C) ==
    [n \in 1..Len(C) |-> C[CHOOSE i \in 1..Len(C) : C24_Place(C, i) = n]]

\* The fold from the left: the entries built so far, and the intervals to come.
RECURSIVE C24_Fold(_, _)
C24_Fold(done, todo) ==
    IF todo = << >> THEN done
    ELSE LET c == Head(todo)
             n == Len(done)
         IN  IF n > 0 /\ c.start <= done[n].end
             THEN C24_Fold(
                      SubSeq(done, 1, n - 1)
                        \o << [ start |-> done[n].start,
                                end |-> IF c.end > done[n].end THEN c.end
                                        ELSE done[n].end,
                                reason |-> done[n].reason \o " + " \o c.reason,
                                parts |-> done[n].parts \o c.parts ] >>,
                      Tail(todo))
             ELSE C24_Fold(done \o <<c>>, Tail(todo))

\* C24: the merged list is the fold from the left over the intervals in stable
\* order of start, peak-derived before burst-derived on a tie: an interval
\* starting at or before the last end extends that entry to the larger end and
\* appends " + " and its reason, repeated or not; any other starts a new entry.
C24_MergedIsFold ==
    AfterIdentify =>
        LET C == Candidates(hume_data, call.time_window)
            F == C24_Fold(<< >>, C24_Sorted(C))
        IN  /\ \A i, j \in 1..Len(C) :
                  (C[i].parts[1][1] = "peak" /\ C[j].parts[1][1] = "burst") => i < j
            /\ MergedCandidates(hume_data, call.time_window) = F
            /\ result = SubSeq(F, 1, IF Len(F) < 7 THEN Len(F) ELSE 7)

\* Peaks at 10 and 11 with window 2 give [8, 13] with both reasons.
C24_Witness ==
    /\ AfterIdentify
    /\ call.time_window = 2
    /\ result = << [ start |-> 8, end |-> 13,
                     reason |-> "High humor/joy moment + Emotional/touching moment",
                     parts |-> << <<"peak", <<"speech_prosody", 1>> >>,
                                  <<"peak", <<"speech_prosody", 2>> >> >> ] >>

\* A reason is appended again when it is already there, and a peak interval
\* comes before a burst interval of the same start.
C24_WitnessRepeated ==
    /\ AfterIdentify
    /\ \E k \in 1..Len(result) :
          /\ result[k].reason
                = "Strong VocalBurst:Joy moment + High humor/joy moment"
                    \o " + Non-verbal expression + Non-verbal expression"
          /\ result[k].start = 9
          /\ result[k].end = 13

\* C25: the returned intervals are disjoint and in strict order: each starts
\* after the end of every interval before it.
C25_DisjointInOrder ==
    AfterIdentify =>
        \A j, k \in 1..Len(result) : j < k => result[j].end < result[k].start

\* An interval merged from intervals that touched, next to one that starts one
\* second after its neighbour ends.
C25_Witness ==
    /\ AfterIdentify
    /\ \E k \in 1..(Len(result) - 1) : result[k + 1].start = result[k].end + 1
    /\ LET C == SortByStart(Candidates(hume_data, call.time_window))
       IN  \E i \in 2..Len(C) :
              /\ C[i].start = C[i - 1].end
              /\ \A j \in 1..(i - 1) : C[j].end <= C[i].start

C27_FromDiffersFromTo ==
    AfterDetect =>
        \A k \in 1..Len(result) : result[k].from_emotion # result[k].to_emotion

AfterCombine == pc = "returned" /\ call.op = "combine_transcriptions"

\* The entries of the result in the order they are walked, each with the number
\* of its session.
C28_Walk ==
    LET S == result.sessions
    IN  UNION { { <<k, j>> : j \in 1..Len(S[k].entries) } : k \in 1..Len(S) }

\* The time elapsed from record a to record b of the list passed in, in seconds.
C28_Elapsed(a, b) ==
    LET ra == call.records[a].recorded_at
        rb == call.records[b].recorded_at
    IN  (rb.day * 86400 + rb.second) - (ra.day * 86400 + ra.second)

\* The entry walked just before entry <<k, j>>.
C28_Before(k, j) ==
    IF j > 1 THEN result.sessions[k].entries[j - 1]
    ELSE result.sessions[k - 1].entries[Len(result.sessions[k - 1].entries)]

\* C28: a new session starts exactly when the time elapsed since the recording
\* before exceeds session_gap_minutes minutes, for a gap of any length; every
\* record is in exactly one session and the sessions are numbered 1..k.
C28_SessionsSplitAtGaps ==
    AfterCombine =>
        LET S == result.sessions
        IN  /\ \A k \in 1..Len(S) : S[k].num = k /\ S[k].entries # << >>
            /\ \A i \in 1..Len(call.records) :
                  Cardinality({ x \in C28_Walk : S[x[1]].entries[x[2]].src = i }) = 1
            /\ \A x \in C28_Walk :
                  (x[1] > 1 \/ x[2] > 1) =>
                      ( x[2] = 1 <=>
                          C28_Elapsed(C28_Before(x[1], x[2]).src,
                                      S[x[1]].entries[x[2]].src)
                              > call.session_gap_minutes * 60 )


(***************************************************************************)
(* C29                                                                     *)
(***************************************************************************)
InEndpoint == call # EmptyDict /\ call.op = "extract_punchlines_endpoint"

C29_Order ==
    << "save_punchline_request", "structure_conversation",
       "save_structured_conversation", "extract_punchlines",
       "save_punchline_results" >>

C29_Called(step) == \E k \in 1..Len(call.steps) : call.steps[k] = step

\* the pipeline's result is there and does not carry the key
C29_Clean(field) ==
    /\ field \in DOMAIN call
    /\ call[field].type = "dict"
    /\ "processing_error" \notin DOMAIN call[field].members

\* the pipeline's result is there and carries the key
C29_Reported(field) ==
    /\ field \in DOMAIN call
    /\ call[field].type = "dict"
    /\ "processing_error" \in DOMAIN call[field].members

C29_TableOf(step) ==
    IF step = "save_punchline_request" THEN "punchline_requests"
    ELSE IF step = "save_structured_conversation"
    THEN "punchline_structured_conversations"
    ELSE "punchline_results"

C29_StepsInOrder ==
    InEndpoint =>
        /\ Len(call.steps) <= Len(C29_Order)
        /\ \A k \in 1..Len(call.steps) : call.steps[k] = C29_Order[k]
        /\ C29_Called("save_punchline_results") =>
              C29_Clean("structured_conversation") /\ C29_Clean("punchlines_result")

C29_FailureEnds ==
    (InEndpoint /\ pc = "returned") =>
        /\ (C29_Reported("structured_conversation") \/ C29_Reported("punchlines_result")
              \/ call.failed # "")
              => result.status_code = 500
        /\ C29_Reported("structured_conversation") => Len(call.steps) = 2
        /\ C29_Reported("punchlines_result") => Len(call.steps) = 4
        /\ \A k \in 1..Len(C29_Order) :
              call.failed = C29_Order[k] => Len(call.steps) \in {k - 1, k}
        /\ result.status_code # 500 =>
              /\ result.status_code = 200
              /\ call.steps = C29_Order
              /\ call.failed = ""

C29_SavedRemain ==
    InEndpoint =>
        \A table \in call.inserted : call.request_id \in db[table]

C29_NoRowRemoved ==
    \A table \in DOMAIN db : db[table] \subseteq db'[table]

\* C29: the endpoint calls save request, structure conversation, save structured
\* conversation, extract punchlines and save results in that order, and save
\* results only after both pipelines gave a result without "processing_error";
\* when a pipeline reports processing_error or a step raises, no later step is
\* called and the answer is HTTP 500; the rows the earlier steps stored stay in
\* their tables.
C29_OrderedAndKept ==
    /\ [](C29_StepsInOrder /\ C29_FailureEnds /\ C29_SavedRemain)
    /\ [][C29_NoRowRemoved]_vars

\* The second pipeline reported processing_error after both earlier saves stored
\* their rows: the answer is 500 and the rows are in the tables.
C29_Witness ==
    /\ InEndpoint
    /\ pc = "returned"
    /\ C29_Reported("punchlines_result")
    /\ result.status_code = 500
    /\ call.inserted = {"punchline_requests", "punchline_structured_conversations"}
    /\ call.request_id \in db.punchline_requests
    /\ call.request_id \in db.punchline_structured_conversations
    /\ call.request_id \notin db.punchline_results
====
